---- MODULE Spec2Model ----
(***************************************************************************)
(* A model of the LLM access gateway of anschmieg/scripts:                 *)
(*   - the token-bucket rate limiter   (copilot-client/pkg/utils)          *)
(*   - the signed-claims access token  (internal/llm token.go)             *)
(*   - the authorization pipeline      (internal/llm authorization.go)     *)
(*   - the usage tracker and the completion handler (service.go, handlers) *)
(* Time is counted in ticks; TicksPerSecond ticks make one second, so that *)
(* sub-second instants exist and the conversions to whole seconds that the *)
(* code performs are visible.                                              *)
(***************************************************************************)
EXTENDS Integers, Sequences, FiniteSets, TLC

VARIABLES
    now,          \* the wall clock (time.Now()), in ticks
    buckets,      \* RateLimiter.buckets: bucket key -> RateBucket
    dirtyBuckets, \* RateLimiter.dirtyBuckets: set of bucket keys
    hist,         \* history: bucket key -> creation time, calls, admitted calls
    lastCheck,    \* history: the last Check call, its bucket before and its result
    jwtSigFirst,  \* whether the linked jwt/v4 verifies the signature before the claims
    issued,       \* the token last issued by CreateLLMToken: <<>> or <<[string, input, at]>>
    lastValidate, \* history: the last ValidateLLMToken call at this instant, and its result
    authIn,       \* the arguments of one ValidateAccess call
    authOut,      \* what that call and each of its stages returned
    userUsage,    \* Service.userUsage: user id -> ModelUsage
    activeUsers,  \* Service.activeUsers: "provider:model" -> ActiveUserCount
    apiKeys,      \* Service.config: the providers an API key is configured for
    req,          \* the completion request in the handler, and how far it got
    served,       \* history: the number of completion requests received so far
    proc,         \* the process: whether a signal arrived, and where main is
    usageLock,    \* Service.usageLock: the caller holding it for writing, and its readers
    mu,           \* RateLimiter.mutex: <<>> or <<the caller holding it>>
    callers,      \* the goroutines inside a tracker or limiter call: caller -> its frame
    recorded      \* history: user id -> what the RecordUsage calls made so far add up to

limiterVars == <<buckets, dirtyBuckets, hist, lastCheck>>

tokenVars == <<issued, lastValidate>>

authVars == <<authIn, authOut>>

trackerVars == <<userUsage, activeUsers>>

gatewayVars == <<apiKeys, req, served, proc>>

callerVars == <<usageLock, mu, callers, recorded>>

vars == <<now, buckets, dirtyBuckets, hist, lastCheck, jwtSigFirst, issued, lastValidate,
          authIn, authOut, userUsage, activeUsers, apiKeys, req, served, proc,
          usageLock, mu, callers, recorded>>

Min(a, b) == IF a < b THEN a ELSE b

\* the process is up: no signal arrived and main waits on ctx.Done()
Serving == [signal |-> FALSE, main |-> "serving"]

\* a sync.RWMutex nobody holds
FreeLock == [writer |-> <<>>, readers |-> {}]

\* no goroutine is inside a call of the usage tracker or of the limiter
NoCallers ==
    /\ usageLock = FreeLock
    /\ mu = <<>>
    /\ callers = <<>>
    /\ recorded = <<>>

(***************************************************************************)
(* Bounds of the model.                                                    *)
(***************************************************************************)
MaxTime == 6          \* the clock stops advancing here
MaxAdvance == 2       \* the largest single advance of the clock
MaxCapacity == 2      \* the largest capacity of a rate limit
MaxChecks == 4        \* the number of Check calls that are followed

(***************************************************************************)
(* The clock.                                                              *)
(***************************************************************************)
Tick ==
    /\ \E d \in 1..MaxAdvance :
        /\ now + d <= MaxTime
        /\ now' = now + d
    /\ UNCHANGED <<limiterVars, jwtSigFirst, callerVars, tokenVars, authVars, trackerVars, gatewayVars>>

(***************************************************************************)
(* RateLimit descriptors (BasicRateLimit).  A refill window is at least one *)
(* tick per token: time.Duration counts nanoseconds.                       *)
(***************************************************************************)
UserIDs == {1, 2}

LimitNames == {"stream-requests"}

RefillWindows == {MaxCapacity + 1}

NewBasicRateLimit(capacity, refillDuration, dbName) ==
    [capacity |-> capacity, refillDuration |-> refillDuration, dbName |-> dbName]

RateLimits ==
    {NewBasicRateLimit(c, w, n) : c \in 0..MaxCapacity, w \in RefillWindows,
                                  n \in LimitNames}

\* a faulty variant: the user id and the limit name are joined without a separator
getBucketKeyNoSeparator(userID, limitName) == ToString(userID) \o limitName

getBucketKey(userID, limitName) == ToString(userID) \o ":" \o limitName

(***************************************************************************)
(* RateBucket.Refill and RateBucket.Allow, on a bucket value.              *)
(***************************************************************************)
\* a faulty variant: the refill is not clamped to the capacity
RefillUnclamped(rb, t) ==
    LET elapsed == t - rb.lastRefill
    IN  IF elapsed >= rb.refillTimePerToken
        THEN [rb EXCEPT
                !.tokenCount = rb.tokenCount + (elapsed \div rb.refillTimePerToken),
                !.lastRefill = t - (elapsed % rb.refillTimePerToken)]
        ELSE rb

\* a faulty variant: a token is only added once more than refillTimePerToken has elapsed
RefillLate(rb, t) ==
    LET elapsed == t - rb.lastRefill
    IN  IF elapsed > rb.refillTimePerToken
        THEN LET newTokens == elapsed \div rb.refillTimePerToken
             IN  [rb EXCEPT
                    !.tokenCount = Min(rb.capacity, rb.tokenCount + newTokens),
                    !.lastRefill = t - (elapsed % rb.refillTimePerToken)]
        ELSE rb

\* a faulty variant: the time left over after the whole tokens is discarded
RefillDiscardRemainder(rb, t) ==
    LET elapsed == t - rb.lastRefill
    IN  IF elapsed >= rb.refillTimePerToken
        THEN LET newTokens == elapsed \div rb.refillTimePerToken
             IN  [rb EXCEPT
                    !.tokenCount = Min(rb.capacity, rb.tokenCount + newTokens),
                    !.lastRefill = t]
        ELSE rb

\* a faulty variant: lastRefill moves to the time of the access even when no token is due
RefillAlwaysAdvance(rb, t) ==
    LET elapsed == t - rb.lastRefill
    IN  IF elapsed >= rb.refillTimePerToken
        THEN LET newTokens == elapsed \div rb.refillTimePerToken
             IN  [rb EXCEPT
                    !.tokenCount = Min(rb.capacity, rb.tokenCount + newTokens),
                    !.lastRefill = t - (elapsed % rb.refillTimePerToken)]
        ELSE [rb EXCEPT !.lastRefill = t]

Refill(rb, t) ==
    LET elapsed == t - rb.lastRefill
    IN  IF elapsed >= rb.refillTimePerToken
        THEN LET newTokens  == elapsed \div rb.refillTimePerToken
                 unusedTime == elapsed % rb.refillTimePerToken
             IN  [rb EXCEPT
                    !.tokenCount = IF rb.tokenCount + newTokens > rb.capacity
                                   THEN rb.capacity
                                   ELSE rb.tokenCount + newTokens,
                    !.lastRefill = t - unusedTime]
        ELSE rb

AllowResult(rb, t) == Refill(rb, t).tokenCount > 0

AllowBucket(rb, t) ==
    LET r == Refill(rb, t)
    IN  IF r.tokenCount > 0 THEN [r EXCEPT !.tokenCount = r.tokenCount - 1] ELSE r

(***************************************************************************)
(* RateLimiter.Check(limit, userID), under rl.mu.  tCreate and tAllow are   *)
(* the two readings of time.Now(). A limit of capacity 0 panics on the     *)
(* division that computes refillTimePerToken, before any bucket is stored. *)
(***************************************************************************)
NewBucket(limit, t) ==
    [capacity           |-> limit.capacity,
     tokenCount         |-> limit.capacity,
     refillTimePerToken |-> limit.refillDuration \div limit.capacity,
     lastRefill         |-> t]

NoHist ==
    [created |-> 0, first |-> 0, calls |-> 0, admitted |-> 0, lastCall |-> 0,
     owner |-> <<>>]

RECURSIVE SumCalls(_)
SumCalls(keys) ==
    IF keys = {} THEN 0
    ELSE LET k == CHOOSE x \in keys : TRUE
         IN  hist[k].calls + SumCalls(keys \ {k})

TotalCalls == SumCalls(DOMAIN hist)

Check(limit, userID) ==
    LET bucketKey == getBucketKey(userID, limit.dbName)
        exists    == bucketKey \in DOMAIN buckets
    IN  IF ~exists /\ limit.capacity = 0
        THEN /\ lastCheck' = [key |-> bucketKey, existed |-> FALSE, panic |-> TRUE,
                              userID |-> userID, name |-> limit.dbName,
                              prevCall |-> now,
                              before |-> NewBucket([limit EXCEPT !.capacity = 1], now),
                              t |-> now, result |-> FALSE]
             /\ UNCHANGED <<now, buckets, dirtyBuckets, hist, jwtSigFirst, callerVars, tokenVars,
                            authVars, trackerVars, gatewayVars>>
        ELSE \E tAllow \in (IF exists THEN {now} ELSE {now, Min(now + 1, MaxTime)}) :
             LET bucket == IF exists THEN buckets[bucketKey] ELSE NewBucket(limit, now)
                 h      == IF exists THEN hist[bucketKey]
                           ELSE [NoHist EXCEPT !.created = now, !.first = tAllow,
                                               !.lastCall = tAllow,
                                               !.owner = <<userID, limit.dbName>>]
                 ok     == AllowResult(bucket, tAllow)
             IN  /\ TotalCalls < MaxChecks
                 /\ now' = tAllow
                 /\ buckets' = [k \in DOMAIN buckets \cup {bucketKey} |->
                                  IF k = bucketKey THEN AllowBucket(bucket, tAllow)
                                  ELSE buckets[k]]
                 /\ dirtyBuckets' = dirtyBuckets \cup {bucketKey}
                 /\ hist' = [k \in DOMAIN hist \cup {bucketKey} |->
                               IF k = bucketKey
                               THEN [h EXCEPT !.calls = h.calls + 1,
                                              !.admitted = h.admitted + (IF ok THEN 1 ELSE 0),
                                              !.lastCall = tAllow]
                               ELSE hist[k]]
                 /\ lastCheck' = [key |-> bucketKey, existed |-> exists, panic |-> FALSE,
                                  userID |-> userID, name |-> limit.dbName,
                                  prevCall |-> h.lastCall,
                                  before |-> bucket, t |-> tAllow, result |-> ok]
                 /\ UNCHANGED <<jwtSigFirst, callerVars, tokenVars, authVars, trackerVars, gatewayVars>>

CheckAny == \E limit \in RateLimits, userID \in UserIDs : Check(limit, userID)

NewRateLimiter ==
    /\ buckets = <<>>
    /\ dirtyBuckets = {}
    /\ hist = <<>>
    /\ lastCheck = [key |-> "", existed |-> FALSE, panic |-> FALSE,
                    userID |-> 0, name |-> "", prevCall |-> 0,
                    before |-> NewBucket(NewBasicRateLimit(1, 1, ""), 0),
                    t |-> 0, result |-> FALSE]

(***************************************************************************)
(* C3: for every bucket of the RateLimiter, 0 <= tokenCount <= capacity    *)
(* after every Check call, whatever the calls and the times between them.  *)
(***************************************************************************)
C3_TokensWithinCapacity ==
    \A k \in DOMAIN buckets :
        /\ 0 <= buckets[k].tokenCount
        /\ buckets[k].tokenCount <= buckets[k].capacity

\* the last Check refilled a bucket by more tokens than it had room for
C3_Witness ==
    /\ lastCheck.existed
    /\ lastCheck.before.tokenCount
         + ((lastCheck.t - lastCheck.before.lastRefill)
              \div lastCheck.before.refillTimePerToken) > lastCheck.before.capacity
    /\ buckets[lastCheck.key].tokenCount = buckets[lastCheck.key].capacity - 1

(***************************************************************************)
(* C4: a fresh bucket of capacity C admits exactly C calls made at one     *)
(* instant and rejects the next; afterwards it admits one more call per    *)
(* refillTimePerToken (W/C) elapsed, never more than C at once, and calls  *)
(* repeated at one timestamp never gain tokens.                            *)
(***************************************************************************)
C4_SameInstant ==
    \A k \in DOMAIN buckets :
        hist[k].lastCall = hist[k].first
            => hist[k].admitted = Min(hist[k].calls, buckets[k].capacity)

C4_AtMostOnePerInterval ==
    \A k \in DOMAIN buckets :
        hist[k].admitted <= buckets[k].capacity
            + ((hist[k].lastCall - hist[k].created) \div buckets[k].refillTimePerToken)

C4_DrainedRefill ==
    (lastCheck.existed /\ lastCheck.before.tokenCount = 0) =>
        LET b == lastCheck.before
            n == (lastCheck.t - b.lastRefill) \div b.refillTimePerToken
        IN  /\ lastCheck.result = (n >= 1)
            /\ buckets[lastCheck.key].tokenCount =
                    IF n >= 1 THEN Min(b.capacity, n) - 1 ELSE 0

C4_SameTimestamp ==
    (lastCheck.existed /\ lastCheck.t = lastCheck.prevCall) =>
        /\ lastCheck.result = (lastCheck.before.tokenCount > 0)
        /\ buckets[lastCheck.key].tokenCount =
                IF lastCheck.result THEN lastCheck.before.tokenCount - 1 ELSE 0

C31_Elapsed == lastCheck.t - lastCheck.before.lastRefill

C31_Step ==
    (lastCheck.existed /\ ~lastCheck.panic) =>
        LET b     == lastCheck.before
            k     == C31_Elapsed \div b.refillTimePerToken
            after == buckets[lastCheck.key]
            taken == IF lastCheck.result THEN 1 ELSE 0
        IN  /\ after.lastRefill = b.lastRefill + k * b.refillTimePerToken
            /\ after.tokenCount + taken = Min(b.capacity, b.tokenCount + k)

C31_Anchored ==
    \A key \in DOMAIN buckets :
        LET rb == buckets[key]
            n  == (hist[key].lastCall - hist[key].created) \div rb.refillTimePerToken
        IN  rb.lastRefill = hist[key].created + n * rb.refillTimePerToken

C31_RemainderPreserved == C31_Step /\ C31_Anchored

\* a token was added while a remainder was left over, and the bucket was not full
C31_Witness ==
    /\ lastCheck.existed
    /\ ~lastCheck.panic
    /\ C31_Elapsed > lastCheck.before.refillTimePerToken
    /\ C31_Elapsed % lastCheck.before.refillTimePerToken # 0
    /\ lastCheck.before.tokenCount + (C31_Elapsed \div lastCheck.before.refillTimePerToken)
            <= lastCheck.before.capacity
    /\ buckets[lastCheck.key].lastRefill < lastCheck.t

(***************************************************************************)
(* C32: a Check call that is rejected leaves the bucket unchanged.  For a  *)
(* bucket of capacity >= 1, whenever Allow returns false the bucket had no *)
(* tokens before the call, and its tokenCount (0) and lastRefill are the   *)
(* same after the call as before it.                                       *)
(***************************************************************************)
C32_Rejected ==
    /\ ~lastCheck.panic
    /\ lastCheck.key \in DOMAIN buckets
    /\ lastCheck.before.capacity >= 1
    /\ ~lastCheck.result

C32_RejectionLeavesBucket ==
    C32_Rejected =>
        /\ lastCheck.existed
        /\ lastCheck.before.tokenCount = 0
        /\ buckets[lastCheck.key] = lastCheck.before

\* a drained bucket rejected a call made after its last refill, before a token was due
C32_Witness ==
    /\ C32_Rejected
    /\ lastCheck.t > lastCheck.before.lastRefill
    /\ lastCheck.t > hist[lastCheck.key].created
    /\ buckets[lastCheck.key].lastRefill = lastCheck.before.lastRefill

(***************************************************************************)
(* Time conversions.  time.Time.Unix() drops the sub-second part,           *)
(* time.Unix(s, 0) is the start of second s, and jwt.NewNumericDate         *)
(* truncates to jwt.TimePrecision (one second).                             *)
(***************************************************************************)
TicksPerSecond == 2

TokenLifetime == 3600

Seconds(n) == n * TicksPerSecond

Unix(t) == t \div TicksPerSecond

TimeUnix(sec) == sec * TicksPerSecond

NewNumericDate(t) == Unix(t)

NewUUID(t) == <<"base64", t>>

(***************************************************************************)
(* The signed-claims encoding (golang-jwt/jwt/v4).  A token string is a     *)
(* header, a claim set and a signature; a signature is the MAC of header    *)
(* and claims under an algorithm and a key.  Pointers are <<>> (nil) or     *)
(* <<v>>; a pointer field tagged omitempty is left out only when nil.       *)
(***************************************************************************)
HMACMethods == {"HS256", "HS384", "HS512"}

KnownMethods == HMACMethods \cup {"none", "RS256"}

Sign(alg, key, signingString) == [alg |-> alg, key |-> key, over |-> signingString]

SigningString(tokenString) == <<tokenString.header, tokenString.claims>>

SignedString(alg, claims, key) ==
    LET header == [alg |-> alg, typ |-> "JWT"]
    IN  [wellFormed |-> TRUE, header |-> header, claims |-> claims,
         sig |-> Sign(alg, key, <<header, claims>>)]

MethodVerify(alg, signingString, sig, key) ==
    /\ alg \in HMACMethods
    /\ sig = Sign(alg, key, signingString)

\* a faulty variant: a nil pointer and a pointer to 0 are both left out (omitempty on a value)
OmitEmptyValue(p) == IF p = <<>> \/ p = <<0>> THEN <<>> ELSE p

OmitEmpty(p) == p

\* a faulty variant: the lifetime is added as a bare count, without the unit time.Second
CreateLLMTokenNoUnit(userID, metricsID, githubLogin, accountCreatedAt, isStaff, hasSubscription, maxMonthlySpend, customAllowance, secret, t) ==
    SignedString("HS256",
        [exp |-> NewNumericDate(t + TokenLifetime),
         iat |-> NewNumericDate(t),
         jti |-> NewUUID(t),
         user_id |-> userID,
         metrics_id |-> metricsID,
         github_user_login |-> githubLogin,
         account_created_at |-> Unix(accountCreatedAt),
         is_staff |-> isStaff,
         has_llm_subscription |-> hasSubscription,
         max_monthly_spend_in_cents |-> maxMonthlySpend,
         custom_llm_monthly_allowance_in_cents |-> OmitEmpty(customAllowance)],
        secret)

CreateLLMToken(userID, metricsID, githubLogin, accountCreatedAt, isStaff, hasSubscription, maxMonthlySpend, customAllowance, secret, t) ==
    SignedString("HS256",
        [exp |-> NewNumericDate(t + Seconds(TokenLifetime)),
         iat |-> NewNumericDate(t),
         jti |-> NewUUID(t),
         user_id |-> userID,
         metrics_id |-> metricsID,
         github_user_login |-> githubLogin,
         account_created_at |-> Unix(accountCreatedAt),
         is_staff |-> isStaff,
         has_llm_subscription |-> hasSubscription,
         max_monthly_spend_in_cents |-> maxMonthlySpend,
         custom_llm_monthly_allowance_in_cents |-> OmitEmpty(customAllowance)],
        secret)

(***************************************************************************)
(* jwt.ParseWithClaims with the key function of ValidateLLMToken, which     *)
(* returns the secret whatever the token's algorithm.  The result is the    *)
(* set of validation errors.  Releases of jwt/v4 before 4.5.0 validate the  *)
(* claims and then the signature and report both; later ones stop at a bad  *)
(* signature.                                                               *)
(***************************************************************************)
ClaimsValid(claims, t) ==
    (IF t >= TimeUnix(claims.exp) THEN {"expired"} ELSE {})
        \cup (IF t < TimeUnix(claims.iat) THEN {"iat"} ELSE {})

ParseWithClaims(tokenString, secret, t, sigFirst) ==
    IF ~tokenString.wellFormed THEN {"malformed"}
    ELSE IF tokenString.header.alg \notin KnownMethods THEN {"unverifiable"}
    ELSE LET sigErr == IF MethodVerify(tokenString.header.alg, SigningString(tokenString),
                                       tokenString.sig, secret)
                       THEN {} ELSE {"signature"}
         IN  IF sigFirst /\ sigErr # {} THEN sigErr
             ELSE ClaimsValid(tokenString.claims, t) \cup sigErr

(***************************************************************************)
(* ValidateLLMToken: the error, and the token as <<>> or <<LLMToken>>.      *)
(***************************************************************************)
LLMTokenOf(claims) ==
    [Iat |-> claims.iat,
     Exp |-> claims.exp,
     Jti |-> claims.jti,
     UserID |-> claims.user_id,
     MetricsID |-> claims.metrics_id,
     GithubUserLogin |-> claims.github_user_login,
     AccountCreatedAt |-> TimeUnix(claims.account_created_at),
     IsStaff |-> claims.is_staff,
     HasLLMSubscription |-> claims.has_llm_subscription,
     MaxMonthlySpendInCents |-> claims.max_monthly_spend_in_cents,
     CustomMonthlyAllowanceInCents |-> claims.custom_llm_monthly_allowance_in_cents]

ValidateLLMToken(tokenString, secret, t, sigFirst) ==
    LET errs == ParseWithClaims(tokenString, secret, t, sigFirst)
    IN  IF errs # {}
        THEN IF "expired" \in errs
             THEN [err |-> "ErrTokenExpired", token |-> <<>>]
             ELSE [err |-> "ErrInvalidToken", token |-> <<>>]
        ELSE [err |-> "nil", token |-> <<LLMTokenOf(tokenString.claims)>>]

(***************************************************************************)
(* The model catalog and the configuration (config.go).  A model name is a  *)
(* sequence of pieces, so that one name can be a prefix of another:         *)
(* <<"gpt-4">> is "gpt-4" and <<"gpt-4", "-0613">> is "gpt-4-0613".         *)
(***************************************************************************)
ProviderCopilot == "copilot"

ProviderOpenAI == "openai"

ProviderAnthropic == "anthropic"

ProviderGoogle == "google"

DefaultModels ==
    << [ID |-> <<"copilot-chat">>, Name |-> <<"copilot-chat">>,
        Provider |-> ProviderCopilot,
        MaxRequestsPerMinute |-> 25, MaxTokensPerMinute |-> 5000,
        MaxInputTokensPerMinute |-> 2500, MaxOutputTokensPerMinute |-> 2500,
        MaxTokensPerDay |-> 100000, Enabled |-> TRUE],
       [ID |-> <<"gpt-4">>, Name |-> <<"gpt-4">>,
        Provider |-> ProviderOpenAI,
        MaxRequestsPerMinute |-> 20, MaxTokensPerMinute |-> 4000,
        MaxInputTokensPerMinute |-> 2000, MaxOutputTokensPerMinute |-> 2000,
        MaxTokensPerDay |-> 80000, Enabled |-> TRUE],
       [ID |-> <<"claude-3-opus">>, Name |-> <<"claude-3-opus">>,
        Provider |-> ProviderAnthropic,
        MaxRequestsPerMinute |-> 15, MaxTokensPerMinute |-> 3000,
        MaxInputTokensPerMinute |-> 1500, MaxOutputTokensPerMinute |-> 1500,
        MaxTokensPerDay |-> 60000, Enabled |-> TRUE] >>

\* GetConfig: the fields the authorization reads; ClosedBetaModelName is never set
GetConfig ==
    [ClosedBetaModelName |-> <<>>,
     DefaultMaxMonthlySpend |-> 1000,
     FreeTierMonthlyAllowance |-> 1000]

(***************************************************************************)
(* The authorization checks (authorization.go).  Each returns the error     *)
(* and, for a rate limit, the counter that tripped.                         *)
(***************************************************************************)
restrictedCountries ==
    {"AF", "BY", "CF", "CN", "CU", "ER", "ET", "IR", "KP", "XK", "LY", "MM", "RU",
     "SO", "SS", "SD", "SY", "VE", "YE"}

torNetwork == "T1"

NoError == [err |-> "nil", detail |-> ""]

Failure(err, detail) == [err |-> err, detail |-> detail]

\* a faulty variant: staff tokens get no bypass of the model check
AuthorizeAccessToModelNoStaff(token, provider, modelName) ==
    IF provider = ProviderCopilot THEN NoError
    ELSE IF provider = ProviderAnthropic
            /\ (modelName = <<"claude-3-5-sonnet">> \/ modelName = <<"claude-3-7-sonnet">>)
    THEN NoError
    ELSE IF GetConfig.ClosedBetaModelName = modelName THEN NoError
    ELSE Failure("ErrModelNotAvailable", "")

AuthorizeAccessToModel(token, provider, modelName) ==
    IF token.IsStaff THEN NoError
    ELSE IF provider = ProviderCopilot THEN NoError
    ELSE IF provider = ProviderAnthropic
            /\ (modelName = <<"claude-3-5-sonnet">> \/ modelName = <<"claude-3-7-sonnet">>)
    THEN NoError
    ELSE IF GetConfig.ClosedBetaModelName = modelName THEN NoError
    ELSE Failure("ErrModelNotAvailable", "")

\* a faulty variant: the TOR sentinel is not looked at
AuthorizeAccessForCountryNoTor(countryCode, provider) ==
    IF countryCode = <<>> \/ countryCode = <<"XX">> THEN Failure("ErrNoCountryCode", "")
    ELSE IF countryCode[1] \in restrictedCountries
    THEN Failure("ErrRestrictedRegion", provider)
    ELSE NoError

AuthorizeAccessForCountry(countryCode, provider) ==
    IF countryCode = <<>> \/ countryCode = <<"XX">> THEN Failure("ErrNoCountryCode", "")
    ELSE IF countryCode[1] = torNetwork THEN Failure("ErrTorNetwork", provider)
    ELSE IF countryCode[1] \in restrictedCountries
    THEN Failure("ErrRestrictedRegion", provider)
    ELSE NoError

RECURSIVE FindModel(_, _, _)
FindModel(provider, modelName, i) ==
    IF i > Len(DefaultModels) THEN <<>>
    ELSE IF DefaultModels[i].Provider = provider /\ DefaultModels[i].Name = modelName
    THEN <<DefaultModels[i]>>
    ELSE FindModel(provider, modelName, i + 1)

AtLeastOne(n) == IF n < 1 THEN 1 ELSE n

\* a faulty variant: the daily ceiling is divided by the users of the recent minutes
PerUserCeilingsDayByMinutes(model, activeCount) ==
    LET usersInRecentMinutes == AtLeastOne(activeCount.UsersInRecentMinutes)
    IN  [RequestsPerMinute     |-> model.MaxRequestsPerMinute \div usersInRecentMinutes,
         TokensPerMinute       |-> model.MaxTokensPerMinute \div usersInRecentMinutes,
         InputTokensPerMinute  |-> model.MaxInputTokensPerMinute \div usersInRecentMinutes,
         OutputTokensPerMinute |-> model.MaxOutputTokensPerMinute \div usersInRecentMinutes,
         TokensPerDay          |-> model.MaxTokensPerDay \div usersInRecentMinutes]

PerUserCeilings(model, activeCount) ==
    LET usersInRecentMinutes == AtLeastOne(activeCount.UsersInRecentMinutes)
        usersInRecentDays    == AtLeastOne(activeCount.UsersInRecentDays)
    IN  [RequestsPerMinute     |-> model.MaxRequestsPerMinute \div usersInRecentMinutes,
         TokensPerMinute       |-> model.MaxTokensPerMinute \div usersInRecentMinutes,
         InputTokensPerMinute  |-> model.MaxInputTokensPerMinute \div usersInRecentMinutes,
         OutputTokensPerMinute |-> model.MaxOutputTokensPerMinute \div usersInRecentMinutes,
         TokensPerDay          |-> model.MaxTokensPerDay \div usersInRecentDays]

CheckRateLimit(userID, provider, modelName, usage, activeCount) ==
    LET found == FindModel(provider, modelName, 1)
    IN  IF found = <<>> THEN Failure("unknown model", "")
        ELSE LET perUser == PerUserCeilings(found[1], activeCount)
             IN  IF usage.RequestsThisMinute > perUser.RequestsPerMinute
                 THEN Failure("ErrRateLimitExceeded", "requests_per_minute")
                 ELSE IF usage.TokensThisMinute > perUser.TokensPerMinute
                 THEN Failure("ErrRateLimitExceeded", "tokens_per_minute")
                 ELSE IF usage.InputTokensThisMinute > perUser.InputTokensPerMinute
                 THEN Failure("ErrRateLimitExceeded", "input_tokens_per_minute")
                 ELSE IF usage.OutputTokensThisMinute > perUser.OutputTokensPerMinute
                 THEN Failure("ErrRateLimitExceeded", "output_tokens_per_minute")
                 ELSE IF usage.TokensThisDay > perUser.TokensPerDay
                 THEN Failure("ErrRateLimitExceeded", "tokens_per_day")
                 ELSE NoError

\* the effective free tier of CheckSpendingLimit
FreeTier(token) ==
    IF token.CustomMonthlyAllowanceInCents = <<>>
    THEN GetConfig.FreeTierMonthlyAllowance
    ELSE token.CustomMonthlyAllowanceInCents[1]

\* monthlySpend as CheckSpendingLimit computes it: <<>> when the subtraction is
\* not reached, else <<currentSpending - freeTier>>
MonthlySpend(token, currentSpending) ==
    IF token.IsStaff THEN <<>>
    ELSE IF currentSpending >= FreeTier(token) /\ token.HasLLMSubscription
    THEN <<currentSpending - FreeTier(token)>>
    ELSE <<>>

\* a faulty variant: a subscriber's whole spend is held against the max monthly spend
CheckSpendingLimitWholeSpend(token, currentSpending) ==
    IF token.IsStaff THEN NoError
    ELSE IF currentSpending >= FreeTier(token)
    THEN IF ~token.HasLLMSubscription
         THEN Failure("ErrSpendingLimitReached", "")
         ELSE IF currentSpending >= token.MaxMonthlySpendInCents
              THEN Failure("ErrSpendingLimitReached", "")
              ELSE NoError
    ELSE NoError

\* currentSpending - freeTier is a uint32 subtraction; it is only reached with
\* currentSpending >= freeTier, where it equals the difference of the numbers
CheckSpendingLimit(token, currentSpending) ==
    IF token.IsStaff THEN NoError
    ELSE LET freeTier == IF token.CustomMonthlyAllowanceInCents = <<>>
                         THEN GetConfig.FreeTierMonthlyAllowance
                         ELSE token.CustomMonthlyAllowanceInCents[1]
         IN  IF currentSpending >= freeTier
             THEN IF ~token.HasLLMSubscription
                  THEN Failure("ErrSpendingLimitReached", "")
                  ELSE LET monthlySpend == currentSpending - freeTier
                       IN  IF monthlySpend >= token.MaxMonthlySpendInCents
                           THEN Failure("ErrSpendingLimitReached", "")
                           ELSE NoError
             ELSE NoError

\* a faulty variant: the plan check runs before the region check
ValidateAccessModelFirst(token, countryCode, provider, modelName, usage, activeCount, currentSpending) ==
    IF AuthorizeAccessToModel(token, provider, modelName) # NoError
    THEN AuthorizeAccessToModel(token, provider, modelName)
    ELSE IF AuthorizeAccessForCountry(countryCode, provider) # NoError
    THEN AuthorizeAccessForCountry(countryCode, provider)
    ELSE IF CheckSpendingLimit(token, currentSpending) # NoError
    THEN CheckSpendingLimit(token, currentSpending)
    ELSE CheckRateLimit(token.UserID, provider, modelName, usage, activeCount)

\* a faulty variant: the spend check is left out
ValidateAccessNoSpend(token, countryCode, provider, modelName, usage, activeCount, currentSpending) ==
    IF AuthorizeAccessForCountry(countryCode, provider) # NoError
    THEN AuthorizeAccessForCountry(countryCode, provider)
    ELSE IF AuthorizeAccessToModel(token, provider, modelName) # NoError
    THEN AuthorizeAccessToModel(token, provider, modelName)
    ELSE CheckRateLimit(token.UserID, provider, modelName, usage, activeCount)

ValidateAccess(token, countryCode, provider, modelName, usage, activeCount, currentSpending) ==
    IF AuthorizeAccessForCountry(countryCode, provider) # NoError
    THEN AuthorizeAccessForCountry(countryCode, provider)
    ELSE IF AuthorizeAccessToModel(token, provider, modelName) # NoError
    THEN AuthorizeAccessToModel(token, provider, modelName)
    ELSE IF CheckSpendingLimit(token, currentSpending) # NoError
    THEN CheckSpendingLimit(token, currentSpending)
    ELSE CheckRateLimit(token.UserID, provider, modelName, usage, activeCount)

(***************************************************************************)
(* The token machine: tokens are issued under Secret, time passes, and      *)
(* token strings are presented for validation: the issued one, or one made  *)
(* from it by somebody else.                                                *)
(***************************************************************************)
MaxTokenSlack == 2    \* the clock runs to this many seconds past the lifetime
MaxIssueTime == 1     \* tokens are issued in the first seconds of the run

Secret == "llm-api-secret"

OtherKey == "attacker-key"

TokenInputs ==
    [userID : {1}, metricsID : {"m-1"}, githubLogin : {"octocat"},
     accountCreatedAt : {TicksPerSecond, TicksPerSecond + 1},
     isStaff : BOOLEAN, hasSubscription : BOOLEAN,
     maxMonthlySpend : {1000}, customAllowance : {<<>>, <<0>>, <<500>>}]

Issue(in, t) ==
    CreateLLMToken(in.userID, in.metricsID, in.githubLogin, in.accountCreatedAt,
                   in.isStaff, in.hasSubscription, in.maxMonthlySpend,
                   in.customAllowance, Secret, t)

Elevated(claims) ==
    [claims EXCEPT !.is_staff = TRUE, !.exp = claims.exp + TokenLifetime]

\* the token strings somebody can present, given an issued token string
Presented(tokenString) ==
    [genuine   |-> tokenString,
     tampered  |-> [tokenString EXCEPT !.claims = Elevated(tokenString.claims)],
     wrongKey  |-> SignedString("HS256", Elevated(tokenString.claims), OtherKey),
     staleKey  |-> SignedString("HS256", tokenString.claims, OtherKey),
     algNone   |-> [tokenString EXCEPT !.header = [alg |-> "none", typ |-> "JWT"],
                                       !.sig = <<>>],
     algRS256  |-> SignedString("RS256", tokenString.claims, Secret),
     algHS512  |-> SignedString("HS512", tokenString.claims, Secret),
     algOther  |-> SignedString("XS1", tokenString.claims, Secret),
     malformed |-> [tokenString EXCEPT !.wellFormed = FALSE]]

NoValidate ==
    [kind |-> "none", t |-> 0, result |-> [err |-> "none", token |-> <<>>]]

NoTokens ==
    /\ issued = <<>>
    /\ lastValidate = NoValidate

\* the instants the clock is observed at: the first seconds, and the seconds
\* around the expiry of a token issued then
TokenInstants ==
    (0..Seconds(MaxIssueTime + 1))
        \cup (Seconds(TokenLifetime - 1)..Seconds(TokenLifetime + MaxTokenSlack))

TokenTick ==
    /\ \E t \in TokenInstants :
        /\ t > now
        /\ now' = t
    /\ lastValidate' = NoValidate
    /\ UNCHANGED <<limiterVars, jwtSigFirst, callerVars, issued, authVars, trackerVars, gatewayVars>>

IssueToken ==
    /\ now <= Seconds(MaxIssueTime)
    /\ \E in \in TokenInputs :
        issued' = <<[string |-> Issue(in, now), input |-> in, at |-> now]>>
    /\ lastValidate' = NoValidate
    /\ UNCHANGED <<now, limiterVars, jwtSigFirst, callerVars, authVars, trackerVars, gatewayVars>>

ValidateToken ==
    /\ issued # <<>>
    /\ \E kind \in DOMAIN Presented(issued[1].string) :
        lastValidate' =
            [kind |-> kind, t |-> now,
             result |-> ValidateLLMToken(Presented(issued[1].string)[kind], Secret,
                                         now, jwtSigFirst)]
    /\ UNCHANGED <<now, limiterVars, jwtSigFirst, callerVars, issued, authVars, trackerVars,
                   gatewayVars>>

(***************************************************************************)
(* One call of ValidateAccess on arguments drawn from AccessCalls; the      *)
(* result of each stage on the same arguments is recorded beside it.        *)
(***************************************************************************)
ZeroUsage ==
    [RequestsThisMinute |-> 0, TokensThisMinute |-> 0, InputTokensThisMinute |-> 0,
     OutputTokensThisMinute |-> 0, TokensThisDay |-> 0]

AccessTokens ==
    [UserID : {1}, IsStaff : BOOLEAN, HasLLMSubscription : BOOLEAN,
     MaxMonthlySpendInCents : {0, 1000},
     CustomMonthlyAllowanceInCents : {<<>>, <<0>>, <<500>>}]

AccessModels ==
    {<<ProviderCopilot, <<"copilot-chat">>>>, <<ProviderCopilot, <<"copilot-x">>>>,
     <<ProviderOpenAI, <<"gpt-4">>>>, <<ProviderOpenAI, <<>>>>,
     <<ProviderAnthropic, <<"claude-3-5-sonnet">>>>,
     <<ProviderAnthropic, <<"claude-3-opus">>>>,
     <<ProviderGoogle, <<"gemini-pro">>>>}

AccessUsages ==
    {[ZeroUsage EXCEPT !.RequestsThisMinute = n] : n \in {0, 5, 6, 15, 16, 25, 26}}
        \cup {[ZeroUsage EXCEPT !.TokensThisDay = 100001],
              [ZeroUsage EXCEPT !.OutputTokensThisMinute = 501, !.TokensThisMinute = 501,
                                !.TokensThisDay = 501]}

AccessCalls ==
    [token : AccessTokens,
     countryCode : {<<>>, <<"XX">>, <<"T1">>, <<"CN">>, <<"US">>},
     model : AccessModels,
     usage : AccessUsages,
     activeUsers : {[UsersInRecentMinutes |-> m, UsersInRecentDays |-> 1] : m \in {0, 1, 5}},
     currentSpending : {0, 500, 1499, 1500}]

NoAccessResult == [country |-> NoError, model |-> NoError, spend |-> NoError,
                   rate |-> NoError, access |-> NoError, done |-> FALSE]

NoAccessCall ==
    /\ authIn = CHOOSE c \in AccessCalls : TRUE
    /\ authOut = NoAccessResult

CallValidateAccess ==
    /\ ~authOut.done
    /\ authOut' =
        [country |-> AuthorizeAccessForCountry(authIn.countryCode, authIn.model[1]),
         model   |-> AuthorizeAccessToModel(authIn.token, authIn.model[1], authIn.model[2]),
         spend   |-> CheckSpendingLimit(authIn.token, authIn.currentSpending),
         rate    |-> CheckRateLimit(authIn.token.UserID, authIn.model[1], authIn.model[2],
                                    authIn.usage, authIn.activeUsers),
         access  |-> ValidateAccess(authIn.token, authIn.countryCode, authIn.model[1],
                                    authIn.model[2], authIn.usage, authIn.activeUsers,
                                    authIn.currentSpending),
         done    |-> TRUE]
    /\ UNCHANGED <<now, limiterVars, jwtSigFirst, callerVars, tokenVars, authIn, trackerVars,
                   gatewayVars>>

(***************************************************************************)
(* The usage tracker (service.go).  Both maps are guarded by usageLock, so *)
(* each of GetActiveUserCount, RecordUsage and GetModelUsage is one step.  *)
(* A Go map is a function; its keys are the function's domain.             *)
(***************************************************************************)
MinAccountAgeDays == 7

Providers == {ProviderCopilot, ProviderOpenAI, ProviderAnthropic, ProviderGoogle}

NewService ==
    /\ userUsage = <<>>
    /\ activeUsers = <<>>

Put(map, key, value) ==
    [k \in DOMAIN map \cup {key} |-> IF k = key THEN value ELSE map[k]]

\* a model name as the string it is: its pieces, concatenated
RECURSIVE ModelString(_)
ModelString(name) ==
    IF name = <<>> THEN "" ELSE Head(name) \o ModelString(Tail(name))

\* fmt.Sprintf("%s:%s", provider, model)
ModelKey(provider, model) == provider \o ":" \o ModelString(model)

\* a faulty variant: an absent entry is answered with a count of zero users
GetActiveUserCountZero(provider, model) ==
    IF ModelKey(provider, model) \notin DOMAIN activeUsers
    THEN [UsersInRecentMinutes |-> 0, UsersInRecentDays |-> 0]
    ELSE activeUsers[ModelKey(provider, model)]

GetActiveUserCount(provider, model) ==
    IF ModelKey(provider, model) \notin DOMAIN activeUsers
    THEN [UsersInRecentMinutes |-> 1, UsersInRecentDays |-> 1]
    ELSE activeUsers[ModelKey(provider, model)]

\* the record RecordUsage stores for the user (service.go:92-111)
UpdatedUsage(userID, provider, model, usage) ==
    IF userID \notin DOMAIN userUsage
    THEN [UserID |-> userID, Provider |-> provider, Model |-> model,
          RequestsThisMinute |-> 1,
          TokensThisMinute |-> usage.Input + usage.Output,
          InputTokensThisMinute |-> usage.Input,
          OutputTokensThisMinute |-> usage.Output,
          TokensThisDay |-> usage.Input + usage.Output]
    ELSE [userUsage[userID] EXCEPT
          !.RequestsThisMinute = @ + 1,
          !.TokensThisMinute = @ + usage.Input + usage.Output,
          !.InputTokensThisMinute = @ + usage.Input,
          !.OutputTokensThisMinute = @ + usage.Output,
          !.TokensThisDay = @ + usage.Input + usage.Output]

\* a faulty variant: every recording counts one more active user
UpdatedActiveCountCounting(modelKey) ==
    IF modelKey \notin DOMAIN activeUsers
    THEN [UsersInRecentMinutes |-> 1, UsersInRecentDays |-> 1]
    ELSE [UsersInRecentMinutes |-> activeUsers[modelKey].UsersInRecentMinutes + 1,
          UsersInRecentDays |-> activeUsers[modelKey].UsersInRecentDays + 1]

\* the count RecordUsage stores for the model (service.go:116-125)
UpdatedActiveCount(modelKey) ==
    IF modelKey \notin DOMAIN activeUsers
    THEN [UsersInRecentMinutes |-> 1, UsersInRecentDays |-> 1]
    ELSE activeUsers[modelKey]

\* RecordUsage as one step: it holds usageLock from its first statement to its return
RecordUsage(userID, provider, model, usage) ==
    /\ userUsage' = Put(userUsage, userID, UpdatedUsage(userID, provider, model, usage))
    /\ activeUsers' = Put(activeUsers, ModelKey(provider, model),
                          UpdatedActiveCount(ModelKey(provider, model)))

\* a faulty variant: the user's record only counts for the model it was created for
GetModelUsagePerModel(userID, provider, model) ==
    IF \/ userID \notin DOMAIN userUsage
       \/ userUsage[userID].Provider # provider
       \/ userUsage[userID].Model # model
    THEN [UserID |-> userID, Provider |-> provider, Model |-> model,
          RequestsThisMinute |-> 0, TokensThisMinute |-> 0,
          InputTokensThisMinute |-> 0, OutputTokensThisMinute |-> 0,
          TokensThisDay |-> 0]
    ELSE userUsage[userID]

GetModelUsage(userID, provider, model) ==
    IF userID \notin DOMAIN userUsage
    THEN [UserID |-> userID, Provider |-> provider, Model |-> model,
          RequestsThisMinute |-> 0, TokensThisMinute |-> 0,
          InputTokensThisMinute |-> 0, OutputTokensThisMinute |-> 0,
          TokensThisDay |-> 0]
    ELSE userUsage[userID]

HasPrefix(name, prefix) ==
    /\ Len(prefix) <= Len(name)
    /\ SubSeq(name, 1, Len(prefix)) = prefix

\* a faulty variant: entries of every provider are matched
RECURSIVE BestMatchAnyProvider(_, _, _, _)
BestMatchAnyProvider(provider, name, i, bestMatch) ==
    IF i > Len(DefaultModels) THEN bestMatch
    ELSE IF /\ HasPrefix(name, DefaultModels[i].Name)
            /\ Len(DefaultModels[i].Name) > Len(bestMatch)
    THEN BestMatchAnyProvider(provider, name, i + 1, DefaultModels[i].Name)
    ELSE BestMatchAnyProvider(provider, name, i + 1, bestMatch)

\* the loop of normalizeModelName from catalog entry i on; a name's length
\* is counted in pieces, which orders the prefixes of one name as bytes do
RECURSIVE BestMatch(_, _, _, _)
BestMatch(provider, name, i, bestMatch) ==
    IF i > Len(DefaultModels) THEN bestMatch
    ELSE IF /\ DefaultModels[i].Provider = provider
            /\ HasPrefix(name, DefaultModels[i].Name)
            /\ Len(DefaultModels[i].Name) > Len(bestMatch)
    THEN BestMatch(provider, name, i + 1, DefaultModels[i].Name)
    ELSE BestMatch(provider, name, i + 1, bestMatch)

normalizeModelName(provider, name) ==
    IF BestMatch(provider, name, 1, <<>>) # <<>>
    THEN BestMatch(provider, name, 1, <<>>)
    ELSE name

(***************************************************************************)
(* The completion handler (handlers.go, service.go).  One request is in    *)
(* the handler at a time; req.pc is the statement it is at.  The request's *)
(* headers and body are drawn when the handler reads them.  Once the       *)
(* handler has returned, req keeps the response only, with pc "Idle"; a    *)
(* request refused for its account's age keeps what it asked for as well.  *)
(* req.endpoint and req.bearer are history: the endpoint asked for, and    *)
(* whether the Authorization header was there with the bearer prefix.      *)
(***************************************************************************)
MaxRequests == 2      \* completion requests received in one run
MaxRecords == 2       \* RecordUsage calls for one user in one run

APIKeys == {"copilot", "openai", "anthropic", "anthropic-staff", "google"}

IdleRequest ==
    [pc |-> "Idle", tokenErr |-> "none", token |-> <<>>, params |-> <<>>,
     countryCode |-> <<>>, gateAt |-> 0, model |-> <<>>, usage |-> <<>>,
     activeCount |-> <<>>, access |-> <<>>, err |-> "none", upstream |-> FALSE,
     respStatus |-> 0, status |-> 0, expiredHeader |-> FALSE,
     errorHeaders |-> {}, listed |-> <<>>, endpoint |-> "none", bearer |-> FALSE,
     body |-> <<>>, reader |-> <<>>, sent |-> <<>>]

NoRequest ==
    /\ apiKeys = APIKeys
    /\ req = IdleRequest
    /\ served = 0
    /\ proc = Serving

\* the handler returns with an error response
Respond(r, status, err) ==
    [IdleRequest EXCEPT !.tokenErr = r.tokenErr, !.upstream = r.upstream,
                        !.endpoint = r.endpoint, !.bearer = r.bearer,
                        !.respStatus = r.respStatus, !.body = r.body,
                        !.status = status, !.err = err]

\* a faulty variant: Retry-After goes out with a spend failure as well
SetErrorResponseHeadersBoth(err) ==
    IF err = "ErrSpendingLimitReached"
    THEN {"X-LLM-Monthly-Spend-Reached", "Retry-After"}
    ELSE IF err = "ErrRateLimitExceeded" THEN {"Retry-After"}
    ELSE {}

\* the headers SetErrorResponseHeaders sets for an error of PerformCompletion
SetErrorResponseHeaders(err) ==
    IF err = "ErrSpendingLimitReached" THEN {"X-LLM-Monthly-Spend-Reached"}
    ELSE IF err = "ErrRateLimitExceeded" THEN {"Retry-After"}
    ELSE {}

\* HandleCompletion answers an error of PerformCompletion
RespondError(r, err) ==
    [Respond(r, 400, err) EXCEPT !.errorHeaders = SetErrorResponseHeaders(err)]

\* the 401 of a handler whose validateToken failed
RespondUnauthorized(r, err) ==
    [Respond([r EXCEPT !.tokenErr = err], 401, err)
        EXCEPT !.expiredHeader = (err = "ErrTokenExpired")]

\* whether an Authorization header is there and starts with "Bearer "
HasBearerPrefix(auth) == auth # <<>> /\ auth[1].scheme = "Bearer "

getCountryCode(country) ==
    IF country = "" \/ country = "XX" THEN <<>> ELSE <<country>>

\* a faulty variant: whatever follows the first seven bytes is taken for the token
validateTokenAnyScheme(auth, t) ==
    IF auth = <<>>
    THEN [err |-> "invalid or missing authorization header", token |-> <<>>]
    ELSE ValidateLLMToken(Presented(Issue(auth[1].input, 0))[auth[1].kind], Secret, t,
                          jwtSigFirst)

\* validateToken on an Authorization header: <<>> when it is missing, else
\* <<[scheme, kind, input]>>: its first seven bytes, and the token string after them
validateToken(auth, t) ==
    IF auth = <<>> \/ auth[1].scheme # "Bearer "
    THEN [err |-> "invalid or missing authorization header", token |-> <<>>]
    ELSE ValidateLLMToken(Presented(Issue(auth[1].input, 0))[auth[1].kind], Secret, t,
                          jwtSigFirst)

HandleCompletionValidateToken(headers, maxRequests) ==
    /\ req.pc = "Idle"
    /\ served < maxRequests
    /\ \E auth \in headers :
        LET r == validateToken(auth, now)
            arrived == [IdleRequest EXCEPT !.endpoint = "completion",
                                           !.bearer = HasBearerPrefix(auth)]
        IN  req' = IF r.err # "nil"
                   THEN RespondUnauthorized(arrived, r.err)
                   ELSE [arrived EXCEPT !.pc = "Decode", !.tokenErr = "nil",
                                        !.token = r.token]
    /\ served' = served + 1
    /\ UNCHANGED <<now, limiterVars, jwtSigFirst, callerVars, tokenVars, authVars, trackerVars,
                   apiKeys, proc>>

\* a faulty variant: the plan check is left out of the filter
RECURSIVE AccessibleModelsRegionOnly(_, _, _)
AccessibleModelsRegionOnly(token, countryCode, i) ==
    IF i > Len(DefaultModels) THEN <<>>
    ELSE IF AuthorizeAccessForCountry(countryCode, DefaultModels[i].Provider) = NoError
    THEN <<DefaultModels[i]>> \o AccessibleModelsRegionOnly(token, countryCode, i + 1)
    ELSE AccessibleModelsRegionOnly(token, countryCode, i + 1)

\* the loop of HandleListModels from catalog entry i on
RECURSIVE AccessibleModels(_, _, _)
AccessibleModels(token, countryCode, i) ==
    IF i > Len(DefaultModels) THEN <<>>
    ELSE IF /\ AuthorizeAccessForCountry(countryCode, DefaultModels[i].Provider) = NoError
            /\ AuthorizeAccessToModel(token, DefaultModels[i].Provider,
                                      DefaultModels[i].Name) = NoError
    THEN <<DefaultModels[i]>> \o AccessibleModels(token, countryCode, i + 1)
    ELSE AccessibleModels(token, countryCode, i + 1)

\* HandleListModels shares no state with other requests: it is one step
HandleListModels(headers, countries, maxRequests) ==
    /\ req.pc = "Idle"
    /\ served < maxRequests
    /\ \E auth \in headers :
        LET r == validateToken(auth, now)
            arrived == [IdleRequest EXCEPT !.endpoint = "models",
                                           !.bearer = HasBearerPrefix(auth)]
        IN  IF r.err # "nil"
            THEN req' = RespondUnauthorized(arrived, r.err)
            ELSE \E country \in countries :
                    req' = [Respond([arrived EXCEPT !.tokenErr = "nil"], 200, "nil")
                                EXCEPT !.token = r.token,
                                       !.countryCode = getCountryCode(country),
                                       !.listed = AccessibleModels(
                                                    r.token[1], getCountryCode(country), 1)]
    /\ served' = served + 1
    /\ UNCHANGED <<now, limiterVars, jwtSigFirst, callerVars, tokenVars, authVars, trackerVars,
                   apiKeys, proc>>

\* the body: <<>> when it does not decode, else <<CompletionParams>>
HandleCompletionDecode(bodies, countries) ==
    /\ req.pc = "Decode"
    /\ \E body \in bodies, country \in countries :
        req' = IF body = <<>>
               THEN Respond(req, 400, "invalid request body")
               ELSE [req EXCEPT !.pc = "AccountAge", !.params = body,
                                !.countryCode = getCountryCode(country)]
    /\ UNCHANGED <<now, limiterVars, jwtSigFirst, callerVars, tokenVars, authVars, trackerVars,
                   apiKeys, served, proc>>

\* a faulty variant: the age in hours is held against the minimum in days
AccountTooYoungInHours(token, t) ==
    /\ t - token.AccountCreatedAt < Seconds(MinAccountAgeDays * 3600)
    /\ ~token.IsStaff
    /\ ~token.HasLLMSubscription

AccountTooYoung(token, t) ==
    /\ t - token.AccountCreatedAt < Seconds(MinAccountAgeDays * 24 * 3600)
    /\ ~token.IsStaff
    /\ ~token.HasLLMSubscription

PerformCompletionAccountAge ==
    /\ req.pc = "AccountAge"
    /\ req' = IF AccountTooYoung(req.token[1], now)
              THEN [RespondError(req, "ErrAccountTooYoung")
                        EXCEPT !.token = req.token, !.params = req.params,
                               !.countryCode = req.countryCode, !.gateAt = now]
              ELSE [req EXCEPT !.pc = "GetModelUsage", !.gateAt = now,
                               !.model = normalizeModelName(req.params[1].Provider,
                                                            req.params[1].Model)]
    /\ UNCHANGED <<now, limiterVars, jwtSigFirst, callerVars, tokenVars, authVars, trackerVars,
                   apiKeys, served, proc>>

PerformCompletionGetModelUsage ==
    /\ req.pc = "GetModelUsage"
    /\ req' = [req EXCEPT !.pc = "GetActiveUserCount",
                          !.usage = <<GetModelUsage(req.token[1].UserID,
                                                    req.params[1].Provider, req.model)>>]
    /\ UNCHANGED <<now, limiterVars, jwtSigFirst, callerVars, tokenVars, authVars, trackerVars,
                   apiKeys, served, proc>>

PerformCompletionGetActiveUserCount ==
    /\ req.pc = "GetActiveUserCount"
    /\ req' = [req EXCEPT !.pc = "ValidateAccess",
                          !.activeCount = <<GetActiveUserCount(req.params[1].Provider,
                                                               req.model)>>]
    /\ UNCHANGED <<now, limiterVars, jwtSigFirst, callerVars, tokenVars, authVars, trackerVars,
                   apiKeys, served, proc>>

\* HandleCompletion passes 0 as the current spending
PerformCompletionValidateAccess ==
    /\ req.pc = "ValidateAccess"
    /\ LET r == ValidateAccess(req.token[1], req.countryCode, req.params[1].Provider,
                               req.model, req.usage[1], req.activeCount[1], 0)
       IN  req' = IF r # NoError
                  THEN RespondError(req, r.err)
                  ELSE [req EXCEPT !.pc = "Route", !.access = <<r>>]
    /\ UNCHANGED <<now, limiterVars, jwtSigFirst, callerVars, tokenVars, authVars, trackerVars,
                   apiKeys, served, proc>>

\* a faulty variant: the staff key is taken whenever it is configured
APIKeyForStaffAlways(provider, isStaff) ==
    IF provider = ProviderAnthropic
    THEN IF "anthropic-staff" \in apiKeys THEN <<"anthropic-staff">>
         ELSE IF "anthropic" \in apiKeys THEN <<"anthropic">> ELSE <<>>
    ELSE IF provider \in apiKeys THEN <<provider>> ELSE <<>>

\* the key a call*API function finds for the provider: <<>> when it is empty
APIKeyFor(provider, isStaff) ==
    IF provider = ProviderAnthropic
    THEN IF isStaff /\ "anthropic-staff" \in apiKeys THEN <<"anthropic-staff">>
         ELSE IF "anthropic" \in apiKeys THEN <<"anthropic">> ELSE <<>>
    ELSE IF provider \in apiKeys THEN <<provider>> ELSE <<>>

\* whether call*API gets as far as the HTTP request, for a provider request that
\* is not JSON ("invalid"), JSON without a model ("no-model") or with one
CallReachesProvider(provider, isStaff, providerRequest) ==
    /\ provider \in Providers
    /\ APIKeyFor(provider, isStaff) # <<>>
    /\ providerRequest # "invalid"
    /\ provider = ProviderGoogle => providerRequest = "with-model"

\* the error PerformCompletion returns without a provider call, or "nil"
CallError(provider, isStaff, providerRequest) ==
    IF provider \notin Providers THEN "ErrProviderNotSupported"
    ELSE IF APIKeyFor(provider, isStaff) = <<>> THEN "API key not configured"
    ELSE IF providerRequest = "invalid" THEN "invalid provider request"
    ELSE IF provider = ProviderGoogle /\ providerRequest # "with-model"
    THEN "missing model in request"
    ELSE "nil"

\* the body of an upstream response: a stream that is read once and then closed
ResponseBody(content) == [content |-> content, read |-> FALSE, closed |-> FALSE]

ReadAll(body) == [body EXCEPT !.read = TRUE]

Close(body) == [body EXCEPT !.closed = TRUE]

\* a faulty variant: the error does not carry the upstream body
ProcessStreamingResponseNoBody(resp) ==
    IF resp.StatusCode # 200
    THEN [reader |-> <<>>, err |-> <<"provider returned error: ", "">>,
          body |-> Close(ReadAll(resp.Body))]
    ELSE [reader |-> <<resp.Body>>, err |-> <<>>, body |-> resp.Body]

\* ProcessStreamingResponse: the reader and the error it returns (<<>> for nil),
\* and the body as it leaves it
ProcessStreamingResponse(resp) ==
    IF resp.StatusCode # 200
    THEN [reader |-> <<>>, err |-> <<"provider returned error: ", resp.Body.content>>,
          body |-> Close(ReadAll(resp.Body))]
    ELSE [reader |-> <<resp.Body>>, err |-> <<>>, body |-> resp.Body]

\* a faulty variant: a call whose transport failed is made again
PerformCompletionRouteRetry(providerRequests, responses, bodies) ==
    /\ req.pc \in {"Route", "Returned"}
    /\ req.pc = "Returned" => req.err = "transport error"
    /\ \E providerRequest \in providerRequests, resp \in responses, content \in bodies :
        req' = IF ~CallReachesProvider(req.params[1].Provider, req.token[1].IsStaff,
                                       providerRequest)
               THEN [req EXCEPT !.pc = "Returned",
                                !.err = CallError(req.params[1].Provider,
                                                  req.token[1].IsStaff, providerRequest)]
               ELSE IF resp = 0
               THEN [req EXCEPT !.pc = "Returned", !.upstream = TRUE,
                                !.err = "transport error"]
               ELSE [req EXCEPT !.pc = "Returned", !.upstream = TRUE, !.err = "nil",
                                !.respStatus = resp, !.body = <<ResponseBody(content)>>]
    /\ UNCHANGED <<now, limiterVars, jwtSigFirst, callerVars, tokenVars, authVars, trackerVars,
                   apiKeys, served, proc>>

\* the provider switch and the call, up to the return of PerformCompletion; the
\* upstream answers with a status, or the transport fails (0)
PerformCompletionRoute(providerRequests, responses, bodies) ==
    /\ req.pc = "Route"
    /\ \E providerRequest \in providerRequests, resp \in responses, content \in bodies :
        req' = IF ~CallReachesProvider(req.params[1].Provider, req.token[1].IsStaff,
                                       providerRequest)
               THEN [req EXCEPT !.pc = "Returned",
                                !.err = CallError(req.params[1].Provider,
                                                  req.token[1].IsStaff, providerRequest)]
               ELSE IF resp = 0
               THEN [req EXCEPT !.pc = "Returned", !.upstream = TRUE,
                                !.err = "transport error"]
               ELSE [req EXCEPT !.pc = "Returned", !.upstream = TRUE, !.err = "nil",
                                !.respStatus = resp, !.body = <<ResponseBody(content)>>]
    /\ UNCHANGED <<now, limiterVars, jwtSigFirst, callerVars, tokenVars, authVars, trackerVars,
                   apiKeys, served, proc>>

\* after PerformCompletion: its error, or ProcessStreamingResponse and the copy of
\* the body to the client, which may fail when the client has gone; then the
\* deferred reader.Close and resp.Body.Close run.  req.reader keeps what
\* ProcessStreamingResponse returned, req.sent what was written to the client
HandleCompletionStream ==
    /\ req.pc = "Returned"
    /\ IF req.err # "nil" THEN req' = RespondError(req, req.err)
       ELSE LET p == ProcessStreamingResponse([StatusCode |-> req.respStatus,
                                               Body |-> req.body[1]])
            IN  IF p.err # <<>>
                THEN req' = [Respond(req, 500, "provider returned error")
                                EXCEPT !.sent = p.err, !.body = <<Close(p.body)>>]
                ELSE \E copied \in BOOLEAN :
                        req' = [Respond(req, 200, "nil")
                                    EXCEPT !.reader = p.reader,
                                           !.sent = IF copied THEN <<p.body.content>>
                                                    ELSE <<>>,
                                           !.body = <<Close(ReadAll(p.body))>>]
    /\ UNCHANGED <<now, limiterVars, jwtSigFirst, callerVars, tokenVars, authVars, trackerVars,
                   apiKeys, served, proc>>

\* RecordUsage has no caller in the repository; it is called from outside
RecordUsageAny(userIDs, models, usages, maxRecords) ==
    /\ \E userID \in userIDs, m \in models, usage \in usages :
        /\ GetModelUsage(userID, m.Provider, m.Model).RequestsThisMinute < maxRecords
        /\ RecordUsage(userID, m.Provider, m.Model, usage)
    /\ UNCHANGED <<now, limiterVars, jwtSigFirst, callerVars, tokenVars, authVars, gatewayVars>>

ClockAdvance(instants) ==
    /\ \E t \in instants :
        /\ t > now
        /\ now' = t
    /\ UNCHANGED <<limiterVars, jwtSigFirst, callerVars, tokenVars, authVars, trackerVars,
                   gatewayVars>>

(***************************************************************************)
(* One call of the region check on a CF-IPCountry header, as the handlers  *)
(* make it: getCountryCode, then AuthorizeAccessForCountry.                *)
(***************************************************************************)
CountryHeaders ==
    {"", "XX", torNetwork, "US", "DE", "xx", "T2"} \cup restrictedCountries

RegionCalls == [header : CountryHeaders, provider : Providers \cup {"mistral"}]

CallAuthorizeAccessForCountry ==
    /\ ~authOut.done
    /\ authOut' = [countryCode |-> getCountryCode(authIn.header),
                   country |-> AuthorizeAccessForCountry(getCountryCode(authIn.header),
                                                         authIn.provider),
                   done |-> TRUE]
    /\ UNCHANGED <<now, limiterVars, jwtSigFirst, callerVars, tokenVars, authIn, trackerVars,
                   gatewayVars>>

\* the pointer passed by a caller other than the handlers may point to "XX"
CallAuthorizeAccessForCountryDirect ==
    /\ ~authOut.done
    /\ authIn.header # ""
    /\ authOut' = [countryCode |-> <<authIn.header>>,
                   country |-> AuthorizeAccessForCountry(<<authIn.header>>,
                                                         authIn.provider),
                   done |-> TRUE]
    /\ UNCHANGED <<now, limiterVars, jwtSigFirst, callerVars, tokenVars, authIn, trackerVars,
                   gatewayVars>>

RegionInit ==
    /\ NoCallers
    /\ now = 0
    /\ jwtSigFirst = TRUE
    /\ NewRateLimiter
    /\ NoTokens
    /\ authIn \in RegionCalls
    /\ authOut = [countryCode |-> <<>>, country |-> NoError, done |-> FALSE]
    /\ NewService
    /\ NoRequest

RegionNext == CallAuthorizeAccessForCountry \/ CallAuthorizeAccessForCountryDirect

SpecRegion == RegionInit /\ [][RegionNext]_vars

AuthInit ==
    /\ NoCallers
    /\ now = 0
    /\ jwtSigFirst = TRUE
    /\ NewRateLimiter
    /\ NoTokens
    /\ authIn \in AccessCalls
    /\ authOut = NoAccessResult
    /\ NewService
    /\ NoRequest

AuthNext == CallValidateAccess

SpecAuth == AuthInit /\ [][AuthNext]_vars

TokenInit ==
    /\ NoCallers
    /\ now = 0
    /\ jwtSigFirst \in BOOLEAN
    /\ NewRateLimiter
    /\ NoTokens
    /\ NoAccessCall
    /\ NewService
    /\ NoRequest

TokenNext == TokenTick \/ IssueToken \/ ValidateToken

SpecToken == TokenInit /\ [][TokenNext]_vars

LimiterInit ==
    /\ NoCallers
    /\ now = 0
    /\ jwtSigFirst = TRUE
    /\ NewRateLimiter
    /\ NoTokens
    /\ NoAccessCall
    /\ NewService
    /\ NoRequest

LimiterNext == Tick \/ CheckAny

SpecLimiter == LimiterInit /\ [][LimiterNext]_vars

(***************************************************************************)
(* The gateway: requests of every kind arrive, usage is recorded from      *)
(* outside, and the clock moves between the instants that matter to a      *)
(* token issued at 0.                                                      *)
(***************************************************************************)
OldAccount == 0 - Seconds(MinAccountAgeDays * 24 * 3600) - 1

YoungAccount == 0 - Seconds(2 * 24 * 3600)

GatewayUser(accountCreatedAt, isStaff, hasSubscription, customAllowance) ==
    [userID |-> 1, metricsID |-> "m-1", githubLogin |-> "octocat",
     accountCreatedAt |-> accountCreatedAt, isStaff |-> isStaff,
     hasSubscription |-> hasSubscription, maxMonthlySpend |-> 1000,
     customAllowance |-> customAllowance]

GatewayTokenInputs ==
    {GatewayUser(OldAccount, TRUE, FALSE, <<>>),
     GatewayUser(OldAccount, FALSE, FALSE, <<>>),
     GatewayUser(OldAccount, FALSE, FALSE, <<0>>),
     GatewayUser(OldAccount, FALSE, TRUE, <<0>>),
     GatewayUser(YoungAccount, FALSE, FALSE, <<>>),
     GatewayUser(YoungAccount, FALSE, TRUE, <<>>)}

GatewayHeaders ==
    {<<>>}
        \cup {<<[scheme |-> "Bearer ", kind |-> kind, input |-> in]>> :
                    kind \in {"genuine", "tampered", "wrongKey", "staleKey", "algNone",
                              "algRS256", "algHS512", "algOther", "malformed"},
                    in \in GatewayTokenInputs}
        \cup {<<[scheme |-> scheme, kind |-> "genuine",
                 input |-> GatewayUser(OldAccount, TRUE, FALSE, <<>>)]>> :
                    scheme \in {"Basic ", "bearer ", "Token: "}}

GatewayModels ==
    {[Provider |-> ProviderCopilot, Model |-> <<"copilot-chat">>],
     [Provider |-> ProviderCopilot, Model |-> <<"copilot-chat", "-preview">>],
     [Provider |-> ProviderCopilot, Model |-> <<"copilot-x">>],
     [Provider |-> ProviderOpenAI, Model |-> <<"gpt-4">>],
     [Provider |-> ProviderAnthropic, Model |-> <<"claude-3-opus">>],
     [Provider |-> ProviderAnthropic, Model |-> <<"claude-3-5-sonnet">>],
     [Provider |-> ProviderGoogle, Model |-> <<"gemini-pro">>],
     [Provider |-> "mistral", Model |-> <<>>]}

GatewayBodies == {<<>>} \cup {<<m>> : m \in GatewayModels}

GatewayCountries == {"", "XX", "T1", "CN", "US"}

ProviderRequests == {"invalid", "no-model", "with-model"}

ProviderResponses == {0, 200, 201, 500}

UpstreamBodies == {"", "overloaded"}

RecordedModels ==
    {[Provider |-> ProviderCopilot, Model |-> <<"copilot-chat">>],
     [Provider |-> ProviderOpenAI, Model |-> <<"gpt-4">>]}

RecordedUsages == {[Input |-> 1300, Output |-> 1300]}

GatewayInstants == {0, Seconds(TokenLifetime)}

GatewayTick == ClockAdvance(GatewayInstants)

GatewayRecordUsage == RecordUsageAny({1}, RecordedModels, RecordedUsages, MaxRecords)

GatewayValidateToken == HandleCompletionValidateToken(GatewayHeaders, MaxRequests)

GatewayListModels == HandleListModels(GatewayHeaders, GatewayCountries, MaxRequests)

GatewayDecode == HandleCompletionDecode(GatewayBodies, GatewayCountries)

GatewayRoute == PerformCompletionRoute(ProviderRequests, ProviderResponses, UpstreamBodies)

Init ==
    /\ NoCallers
    /\ now = 0
    /\ jwtSigFirst = TRUE
    /\ NewRateLimiter
    /\ NoTokens
    /\ NoAccessCall
    /\ NewService
    /\ apiKeys \in {APIKeys, {"anthropic-staff"}}
    /\ req = IdleRequest
    /\ served = 0
    /\ proc = Serving

Next ==
    \/ GatewayTick
    \/ GatewayRecordUsage
    \/ GatewayValidateToken
    \/ GatewayListModels
    \/ GatewayDecode
    \/ PerformCompletionAccountAge
    \/ PerformCompletionGetModelUsage
    \/ PerformCompletionGetActiveUserCount
    \/ PerformCompletionValidateAccess
    \/ GatewayRoute
    \/ HandleCompletionStream

Spec == Init /\ [][Next]_vars

(***************************************************************************)
(* The burst: one user with a valid token asks for copilot-chat again and  *)
(* again within one minute; every provider has a key and answers.          *)
(***************************************************************************)
BurstRequests == DefaultModels[1].MaxRequestsPerMinute + 1

BurstHeaders ==
    {<<[scheme |-> "Bearer ", kind |-> "genuine",
        input |-> GatewayUser(OldAccount, FALSE, FALSE, <<>>)]>>}

BurstBodies == {<<[Provider |-> ProviderCopilot, Model |-> <<"copilot-chat">>]>>}

BurstTick == ClockAdvance({0, Seconds(59)})

\* usage is recorded at most once for each request received
BurstRecordUsage ==
    RecordUsageAny({1}, {b[1] : b \in BurstBodies}, {[Input |-> 1, Output |-> 1]}, served)

BurstValidateToken == HandleCompletionValidateToken(BurstHeaders, BurstRequests)

BurstDecode == HandleCompletionDecode(BurstBodies, {"US"})

BurstRoute == PerformCompletionRoute({"with-model"}, {200}, {"data: chunk"})

BurstInit ==
    /\ NoCallers
    /\ now = 0
    /\ jwtSigFirst = TRUE
    /\ NewRateLimiter
    /\ NoTokens
    /\ NoAccessCall
    /\ NewService
    /\ NoRequest

BurstNext ==
    \/ BurstTick
    \/ BurstRecordUsage
    \/ BurstValidateToken
    \/ BurstDecode
    \/ PerformCompletionAccountAge
    \/ PerformCompletionGetModelUsage
    \/ PerformCompletionGetActiveUserCount
    \/ PerformCompletionValidateAccess
    \/ BurstRoute
    \/ HandleCompletionStream

SpecBurst == BurstInit /\ [][BurstNext]_vars

(***************************************************************************)
(* One call of a call*API function (callCopilotAPI, callOpenAIAPI,         *)
(* callAnthropicAPI, callGoogleAIAPI) under a configuration with any of    *)
(* the five keys set or empty.  authIn is the call; authOut is the key the *)
(* function selected (<<>> when it is empty), the error it returned and    *)
(* whether it sent a request upstream.                                     *)
(***************************************************************************)
CallProviderAPI ==
    /\ \E provider \in Providers, isStaff \in BOOLEAN,
          providerRequest \in ProviderRequests, resp \in ProviderResponses :
        /\ authIn' = <<[provider |-> provider, isStaff |-> isStaff,
                        providerRequest |-> providerRequest]>>
        /\ authOut' =
              [apiKey |-> APIKeyFor(provider, isStaff),
               upstream |-> CallReachesProvider(provider, isStaff, providerRequest),
               err |-> IF ~CallReachesProvider(provider, isStaff, providerRequest)
                       THEN CallError(provider, isStaff, providerRequest)
                       ELSE IF resp = 0 THEN "transport error" ELSE "nil"]
    /\ UNCHANGED <<now, limiterVars, jwtSigFirst, callerVars, tokenVars, trackerVars, gatewayVars>>

DispatchInit ==
    /\ NoCallers
    /\ now = 0
    /\ jwtSigFirst = TRUE
    /\ NewRateLimiter
    /\ NoTokens
    /\ authIn = <<>>
    /\ authOut = [apiKey |-> <<>>, upstream |-> FALSE, err |-> "none"]
    /\ NewService
    /\ apiKeys \in SUBSET APIKeys
    /\ req = IdleRequest
    /\ served = 0
    /\ proc = Serving

DispatchNext == CallProviderAPI

SpecDispatch == DispatchInit /\ [][DispatchNext]_vars

(***************************************************************************)
(* The usage tracker under concurrent callers.  Each caller is a goroutine *)
(* inside RecordUsage, GetModelUsage or GetActiveUserCount; its frame      *)
(* holds the call's arguments, the statement it is at, its locals and what *)
(* it returned.  A call takes usageLock first and releases it on return    *)
(* (defer); between the two, each read and each write of a map is a step.  *)
(***************************************************************************)
MaxCallers == 2       \* goroutines calling the tracker at once

Callers == 1..MaxCallers

IdleFrame == [op |-> "none", pc |-> "idle", args |-> <<>>, existing |-> <<>>, ret |-> <<>>]

\* a faulty variant: the lock is taken whoever holds it
CanLockAlways(lock) == TRUE

\* sync.RWMutex.Lock goes through when nobody holds the lock
CanLock(lock) == lock.writer = <<>> /\ lock.readers = {}

\* sync.RWMutex.RLock goes through when no writer holds the lock
CanRLock(lock) == lock.writer = <<>>

RECURSIVE SumRecorded(_)
SumRecorded(users) ==
    IF users = {} THEN 0
    ELSE LET u == CHOOSE u \in users : TRUE
         IN  recorded[u].n + SumRecorded(users \ {u})

Enter(c, op, args) ==
    callers' = [callers EXCEPT ![c] = [IdleFrame EXCEPT !.op = op, !.pc = "Lock",
                                                        !.args = <<args>>]]

Goto(c, pc) == callers' = [callers EXCEPT ![c].pc = pc]

\* a call of RecordUsage begins; recorded counts it
RecordUsageEnter(c, userIDs, models, usages, maxRecords) ==
    /\ callers[c].pc = "idle"
    /\ SumRecorded(DOMAIN recorded) < maxRecords
    /\ \E userID \in userIDs, m \in models, usage \in usages :
        /\ Enter(c, "RecordUsage", [userID |-> userID, provider |-> m.Provider,
                                    model |-> m.Model, usage |-> usage])
        /\ recorded' =
              Put(recorded, userID,
                  IF userID \in DOMAIN recorded
                  THEN [n |-> recorded[userID].n + 1,
                        input |-> recorded[userID].input + usage.Input,
                        output |-> recorded[userID].output + usage.Output]
                  ELSE [n |-> 1, input |-> usage.Input, output |-> usage.Output])
    /\ UNCHANGED <<now, limiterVars, jwtSigFirst, tokenVars, authVars, trackerVars,
                   gatewayVars, usageLock, mu>>

\* s.usageLock.Lock()
RecordUsageLock(c) ==
    /\ callers[c].op = "RecordUsage" /\ callers[c].pc = "Lock"
    /\ CanLock(usageLock)
    /\ usageLock' = [usageLock EXCEPT !.writer = <<c>>]
    /\ Goto(c, "Load")
    /\ UNCHANGED <<now, limiterVars, jwtSigFirst, tokenVars, authVars, trackerVars,
                   gatewayVars, mu, recorded>>

\* existing, exists := s.userUsage[userID], and the update of existing
RecordUsageLoad(c) ==
    /\ callers[c].op = "RecordUsage" /\ callers[c].pc = "Load"
    /\ LET a == callers[c].args[1]
       IN  callers' = [callers EXCEPT
                ![c].pc = "Store",
                ![c].existing = <<UpdatedUsage(a.userID, a.provider, a.model, a.usage)>>]
    /\ UNCHANGED <<now, limiterVars, jwtSigFirst, tokenVars, authVars, trackerVars,
                   gatewayVars, usageLock, mu, recorded>>

\* s.userUsage[userID] = existing
RecordUsageStore(c) ==
    /\ callers[c].op = "RecordUsage" /\ callers[c].pc = "Store"
    /\ userUsage' = Put(userUsage, callers[c].args[1].userID, callers[c].existing[1])
    /\ Goto(c, "Active")
    /\ UNCHANGED <<now, limiterVars, jwtSigFirst, tokenVars, authVars, activeUsers,
                   gatewayVars, usageLock, mu, recorded>>

\* the update of s.activeUsers[modelKey]
RecordUsageActive(c) ==
    /\ callers[c].op = "RecordUsage" /\ callers[c].pc = "Active"
    /\ LET modelKey == ModelKey(callers[c].args[1].provider, callers[c].args[1].model)
       IN  activeUsers' = Put(activeUsers, modelKey, UpdatedActiveCount(modelKey))
    /\ Goto(c, "Unlock")
    /\ UNCHANGED <<now, limiterVars, jwtSigFirst, tokenVars, authVars, userUsage,
                   gatewayVars, usageLock, mu, recorded>>

\* the deferred s.usageLock.Unlock(), and the return
RecordUsageUnlock(c) ==
    /\ callers[c].op = "RecordUsage" /\ callers[c].pc = "Unlock"
    /\ usageLock' = [usageLock EXCEPT !.writer = <<>>]
    /\ callers' = [callers EXCEPT ![c] = IdleFrame]
    /\ UNCHANGED <<now, limiterVars, jwtSigFirst, tokenVars, authVars, trackerVars,
                   gatewayVars, mu, recorded>>

\* a call of GetModelUsage or GetActiveUserCount begins
ReadEnter(c, userIDs, models) ==
    /\ callers[c].pc = "idle"
    /\ \/ \E userID \in userIDs, m \in models :
            Enter(c, "GetModelUsage",
                  [userID |-> userID, provider |-> m.Provider, model |-> m.Model])
       \/ \E m \in models :
            Enter(c, "GetActiveUserCount", [provider |-> m.Provider, model |-> m.Model])
    /\ UNCHANGED <<now, limiterVars, jwtSigFirst, tokenVars, authVars, trackerVars,
                   gatewayVars, usageLock, mu, recorded>>

\* s.usageLock.RLock()
ReadRLock(c) ==
    /\ callers[c].op \in {"GetModelUsage", "GetActiveUserCount"}
    /\ callers[c].pc = "Lock"
    /\ CanRLock(usageLock)
    /\ usageLock' = [usageLock EXCEPT !.readers = @ \cup {c}]
    /\ Goto(c, "Read")
    /\ UNCHANGED <<now, limiterVars, jwtSigFirst, tokenVars, authVars, trackerVars,
                   gatewayVars, mu, recorded>>

\* the lookup in the map, and the value to return
ReadLookup(c) ==
    /\ callers[c].op \in {"GetModelUsage", "GetActiveUserCount"}
    /\ callers[c].pc = "Read"
    /\ LET a == callers[c].args[1]
       IN  callers' = [callers EXCEPT
                ![c].pc = "Unlock",
                ![c].ret = IF callers[c].op = "GetModelUsage"
                           THEN <<GetModelUsage(a.userID, a.provider, a.model)>>
                           ELSE <<GetActiveUserCount(a.provider, a.model)>>]
    /\ UNCHANGED <<now, limiterVars, jwtSigFirst, tokenVars, authVars, trackerVars,
                   gatewayVars, usageLock, mu, recorded>>

\* a faulty variant: the call returns without releasing the read lock
ReadReturnLocked(c) ==
    /\ callers[c].op \in {"GetModelUsage", "GetActiveUserCount"}
    /\ callers[c].pc = "Unlock"
    /\ callers' = [callers EXCEPT ![c] = IdleFrame]
    /\ UNCHANGED <<now, limiterVars, jwtSigFirst, tokenVars, authVars, trackerVars,
                   gatewayVars, usageLock, mu, recorded>>

\* the deferred s.usageLock.RUnlock(), and the return
ReadRUnlock(c) ==
    /\ callers[c].op \in {"GetModelUsage", "GetActiveUserCount"}
    /\ callers[c].pc = "Unlock"
    /\ usageLock' = [usageLock EXCEPT !.readers = @ \ {c}]
    /\ callers' = [callers EXCEPT ![c] = IdleFrame]
    /\ UNCHANGED <<now, limiterVars, jwtSigFirst, tokenVars, authVars, trackerVars,
                   gatewayVars, mu, recorded>>

TrackerUsers == {1, 2}

TrackerUsages == {[Input |-> 1, Output |-> 2], [Input |-> 4, Output |-> 0]}

\* usage is recorded for one model; the reads ask for that model and for another
TrackerRecordedModels == {[Provider |-> ProviderCopilot, Model |-> <<"copilot-chat">>]}

TrackerRecordUsageEnter ==
    \E c \in Callers :
        RecordUsageEnter(c, TrackerUsers, TrackerRecordedModels, TrackerUsages, MaxRecords)

TrackerReadEnter == \E c \in Callers : ReadEnter(c, TrackerUsers, RecordedModels)

TrackerInit ==
    /\ now = 0
    /\ jwtSigFirst = TRUE
    /\ NewRateLimiter
    /\ NoTokens
    /\ NoAccessCall
    /\ NewService
    /\ NoRequest
    /\ usageLock = FreeLock
    /\ mu = <<>>
    /\ callers = [c \in Callers |-> IdleFrame]
    /\ recorded = <<>>

TrackerNext ==
    \/ TrackerRecordUsageEnter
    \/ \E c \in Callers : RecordUsageLock(c)
    \/ \E c \in Callers : RecordUsageLoad(c)
    \/ \E c \in Callers : RecordUsageStore(c)
    \/ \E c \in Callers : RecordUsageActive(c)
    \/ \E c \in Callers : RecordUsageUnlock(c)
    \/ TrackerReadEnter
    \/ \E c \in Callers : ReadRLock(c)
    \/ \E c \in Callers : ReadLookup(c)
    \/ \E c \in Callers : ReadRUnlock(c)

SpecTracker == TrackerInit /\ [][TrackerNext]_vars

(***************************************************************************)
(* One call of normalizeModelName, and a second call on what it returned.  *)
(* A requested name is a sequence of pieces: catalog names and suffixes.   *)
(***************************************************************************)
MaxPieces == 2        \* the pieces of a requested model name

NamePieces == {"copilot-chat", "gpt-4", "claude-3-opus", "-preview", "o"}

RequestedNames == UNION {[1..n -> NamePieces] : n \in 0..MaxPieces}

CallNormalizeModelName ==
    /\ \E provider \in Providers \cup {"mistral"}, name \in RequestedNames :
        /\ authIn' = <<[provider |-> provider, name |-> name]>>
        /\ authOut' = [once |-> normalizeModelName(provider, name),
                       twice |-> normalizeModelName(provider,
                                                    normalizeModelName(provider, name))]
    /\ UNCHANGED <<now, limiterVars, jwtSigFirst, callerVars, tokenVars, trackerVars,
                   gatewayVars>>

NormalizeInit ==
    /\ NoCallers
    /\ now = 0
    /\ jwtSigFirst = TRUE
    /\ NewRateLimiter
    /\ NoTokens
    /\ authIn = <<>>
    /\ authOut = [once |-> <<>>, twice |-> <<>>]
    /\ NewService
    /\ NoRequest

NormalizeNext == CallNormalizeModelName

SpecNormalize == NormalizeInit /\ [][NormalizeNext]_vars

(***************************************************************************)
(* One call of CheckRateLimit.  The usage counters are drawn at, just      *)
(* above and far above the ceilings that one and five active users give,   *)
(* so that any set of the five counters can be over its ceiling at once.   *)
(***************************************************************************)
RateUsages ==
    [UserID : {1}, Provider : {ProviderCopilot}, Model : {<<"copilot-chat">>},
     RequestsThisMinute : {5, 6, 26},
     TokensThisMinute : {1000, 1001, 5001},
     InputTokensThisMinute : {500, 2501},
     OutputTokensThisMinute : {500, 501},
     TokensThisDay : {25000, 25001, 100001}]

RateActiveUsers == [UsersInRecentMinutes : {0, 1, 5}, UsersInRecentDays : {0, 1, 4}]

RateModels ==
    {<<ProviderCopilot, <<"copilot-chat">>>>, <<ProviderOpenAI, <<"gpt-4">>>>,
     <<ProviderAnthropic, <<"claude-3-opus">>>>, <<ProviderOpenAI, <<"copilot-chat">>>>}

CallCheckRateLimit ==
    /\ authIn = <<>>
    /\ \E m \in RateModels, usage \in RateUsages, activeCount \in RateActiveUsers :
        /\ authIn' = <<[provider |-> m[1], modelName |-> m[2], usage |-> usage,
                        activeUsers |-> activeCount]>>
        /\ authOut' = CheckRateLimit(usage.UserID, m[1], m[2], usage, activeCount)
    /\ UNCHANGED <<now, limiterVars, jwtSigFirst, callerVars, tokenVars, trackerVars,
                   gatewayVars>>

RateInit ==
    /\ NoCallers
    /\ now = 0
    /\ jwtSigFirst = TRUE
    /\ NewRateLimiter
    /\ NoTokens
    /\ authIn = <<>>
    /\ authOut = NoError
    /\ NewService
    /\ NoRequest

RateNext == CallCheckRateLimit

SpecRate == RateInit /\ [][RateNext]_vars

(***************************************************************************)
(* The limiter under concurrent callers.  Each caller is a goroutine that  *)
(* makes one Check call; its frame holds the limit and the user, the       *)
(* statement it is at, whether it found the bucket (existing) and what it  *)
(* returned ("true", "false" or "panic").  Check takes rl.mu first and     *)
(* releases it on return (defer), also when the division panics.  The      *)
(* clock stands still.                                                     *)
(***************************************************************************)
\* a faulty variant: the mutex is taken whoever holds it
CanLockMutexAlways(m) == TRUE

\* sync.Mutex.Lock goes through when nobody holds the mutex
CanLockMutex(m) == m = <<>>

CheckKey(c) == getBucketKey(callers[c].args[1].userID, callers[c].args[1].limit.dbName)

CheckAt(c, pc) == callers[c].op = "Check" /\ callers[c].pc = pc

CheckEnter(c) ==
    /\ callers[c].op = "none"
    /\ \E limit \in RateLimits, userID \in UserIDs :
        Enter(c, "Check", [limit |-> limit, userID |-> userID])
    /\ UNCHANGED <<now, limiterVars, jwtSigFirst, tokenVars, authVars, trackerVars,
                   gatewayVars, usageLock, mu, recorded>>

\* rl.mu.Lock()
CheckLock(c) ==
    /\ CheckAt(c, "Lock")
    /\ CanLockMutex(mu)
    /\ mu' = <<c>>
    /\ Goto(c, "Lookup")
    /\ UNCHANGED <<now, limiterVars, jwtSigFirst, tokenVars, authVars, trackerVars,
                   gatewayVars, usageLock, recorded>>

\* bucket, exists := rl.buckets[bucketKey]
CheckLookup(c) ==
    /\ CheckAt(c, "Lookup")
    /\ callers' = [callers EXCEPT
            ![c].existing = <<CheckKey(c) \in DOMAIN buckets>>,
            ![c].pc = IF CheckKey(c) \in DOMAIN buckets THEN "Dirty" ELSE "Create"]
    /\ UNCHANGED <<now, limiterVars, jwtSigFirst, tokenVars, authVars, trackerVars,
                   gatewayVars, usageLock, mu, recorded>>

\* the new bucket and rl.buckets[bucketKey] = bucket; capacity 0 panics instead
CheckCreate(c) ==
    /\ CheckAt(c, "Create")
    /\ IF callers[c].args[1].limit.capacity = 0
       THEN /\ callers' = [callers EXCEPT ![c].pc = "Unlock", ![c].ret = <<"panic">>]
            /\ UNCHANGED buckets
       ELSE /\ buckets' = Put(buckets, CheckKey(c), NewBucket(callers[c].args[1].limit, now))
            /\ Goto(c, "Dirty")
    /\ UNCHANGED <<now, dirtyBuckets, hist, lastCheck, jwtSigFirst, tokenVars, authVars,
                   trackerVars, gatewayVars, usageLock, mu, recorded>>

\* rl.dirtyBuckets[bucketKey] = struct{}{}
CheckDirty(c) ==
    /\ CheckAt(c, "Dirty")
    /\ dirtyBuckets' = dirtyBuckets \cup {CheckKey(c)}
    /\ Goto(c, "Refill")
    /\ UNCHANGED <<now, buckets, hist, lastCheck, jwtSigFirst, tokenVars, authVars,
                   trackerVars, gatewayVars, usageLock, mu, recorded>>

\* rb.Refill(now) in Allow
CheckRefill(c) ==
    /\ CheckAt(c, "Refill")
    /\ buckets' = [buckets EXCEPT ![CheckKey(c)] = Refill(@, now)]
    /\ Goto(c, "Test")
    /\ UNCHANGED <<now, dirtyBuckets, hist, lastCheck, jwtSigFirst, tokenVars, authVars,
                   trackerVars, gatewayVars, usageLock, mu, recorded>>

\* if rb.tokenCount > 0
CheckTest(c) ==
    /\ CheckAt(c, "Test")
    /\ callers' = IF buckets[CheckKey(c)].tokenCount > 0
                  THEN [callers EXCEPT ![c].pc = "Decrement"]
                  ELSE [callers EXCEPT ![c].pc = "Unlock", ![c].ret = <<"false">>]
    /\ UNCHANGED <<now, limiterVars, jwtSigFirst, tokenVars, authVars, trackerVars,
                   gatewayVars, usageLock, mu, recorded>>

\* rb.tokenCount--, return true
CheckDecrement(c) ==
    /\ CheckAt(c, "Decrement")
    /\ buckets' = [buckets EXCEPT ![CheckKey(c)].tokenCount = @ - 1]
    /\ callers' = [callers EXCEPT ![c].pc = "Unlock", ![c].ret = <<"true">>]
    /\ UNCHANGED <<now, dirtyBuckets, hist, lastCheck, jwtSigFirst, tokenVars, authVars,
                   trackerVars, gatewayVars, usageLock, mu, recorded>>

\* the deferred rl.mu.Unlock(), and the return or the panic going up
CheckUnlock(c) ==
    /\ CheckAt(c, "Unlock")
    /\ mu' = <<>>
    /\ Goto(c, "done")
    /\ UNCHANGED <<now, limiterVars, jwtSigFirst, tokenVars, authVars, trackerVars,
                   gatewayVars, usageLock, recorded>>

ConcurrentInit ==
    /\ now = 0
    /\ jwtSigFirst = TRUE
    /\ NewRateLimiter
    /\ NoTokens
    /\ NoAccessCall
    /\ NewService
    /\ NoRequest
    /\ usageLock = FreeLock
    /\ mu = <<>>
    /\ callers = [c \in Callers |-> IdleFrame]
    /\ recorded = <<>>

ConcurrentNext ==
    \/ \E c \in Callers : CheckEnter(c)
    \/ \E c \in Callers : CheckLock(c)
    \/ \E c \in Callers : CheckLookup(c)
    \/ \E c \in Callers : CheckCreate(c)
    \/ \E c \in Callers : CheckDirty(c)
    \/ \E c \in Callers : CheckRefill(c)
    \/ \E c \in Callers : CheckTest(c)
    \/ \E c \in Callers : CheckDecrement(c)
    \/ \E c \in Callers : CheckUnlock(c)

SpecConcurrent == ConcurrentInit /\ [][ConcurrentNext]_vars

(***************************************************************************)
(* Claims about the access token, under SpecToken.                          *)
(***************************************************************************)
ValidatedGenuine == issued # <<>> /\ lastValidate.kind = "genuine"

\* the instant the issued token's lifetime ends, and the expiry it embeds
LifetimeEnd == issued[1].at + Seconds(TokenLifetime)

EmbeddedExpiry == (LifetimeEnd \div TicksPerSecond) * TicksPerSecond

(***************************************************************************)
(* C7 as stated: a token issued at t validates at every instant before     *)
(* t + 1h and is TokenExpired at t + 1h and at every instant after it.     *)
(***************************************************************************)
C7_Original ==
    ValidatedGenuine =>
        /\ now < LifetimeEnd => lastValidate.result.err = "nil"
        /\ now >= LifetimeEnd => lastValidate.result.err = "ErrTokenExpired"

(***************************************************************************)
(* C7 amended: the expiry instant is t + 1h truncated to the whole second. *)
(* The token validates at every instant before it (one second before       *)
(* t + 1h in particular) and is TokenExpired at that instant and after it, *)
(* whatever its staff and subscription flags.                              *)
(***************************************************************************)
C7_ExpiryAtEmbeddedSecond ==
    ValidatedGenuine =>
        /\ now < EmbeddedExpiry => lastValidate.result.err = "nil"
        /\ now >= EmbeddedExpiry => lastValidate.result.err = "ErrTokenExpired"
        /\ now = LifetimeEnd - Seconds(1) => lastValidate.result.err = "nil"

\* a token issued at a sub-second instant is validated at its embedded expiry,
\* which is before t + 1h
C7_Witness ==
    /\ ValidatedGenuine
    /\ issued[1].at % TicksPerSecond # 0
    /\ now = EmbeddedExpiry
    /\ now < LifetimeEnd
    /\ lastValidate.result.err = "ErrTokenExpired"
    /\ issued[1].input.isStaff

(***************************************************************************)
(* C8 as stated: ValidateLLMToken returns a token only for a well-formed   *)
(* string signed with HS256 under the secret; every other failure than the *)
(* expiry of such a string is TokenInvalid, and TokenExpired is reported   *)
(* only for expiry.                                                        *)
(***************************************************************************)
Authentic(tokenString) ==
    /\ tokenString.wellFormed
    /\ tokenString.header.alg = "HS256"
    /\ tokenString.sig = [alg |-> "HS256", key |-> Secret,
                          over |-> <<tokenString.header, tokenString.claims>>]

C8_OnlyAuthenticAccepted ==
    (issued # <<>> /\ lastValidate.kind # "none") =>
        LET ts == Presented(issued[1].string)[lastValidate.kind]
        IN  /\ lastValidate.result.err = "nil" => Authentic(ts)
            /\ ~Authentic(ts) => lastValidate.result.err = "ErrInvalidToken"
            /\ lastValidate.result.err = "ErrTokenExpired" =>
                   Authentic(ts) /\ now >= ts.claims.exp * TicksPerSecond

(***************************************************************************)
(* C9 as stated: validating an issued token before its expiry returns      *)
(* every claim field as it was given to or generated by CreateLLMToken.    *)
(***************************************************************************)
RoundTripExcept(accountCreatedAt) ==
    (ValidatedGenuine /\ lastValidate.result.err = "nil") =>
        LET tok == lastValidate.result.token[1]
            in  == issued[1].input
        IN  /\ tok.UserID = in.userID
            /\ tok.GithubUserLogin = in.githubLogin
            /\ tok.MetricsID = in.metricsID
            /\ tok.AccountCreatedAt = accountCreatedAt
            /\ tok.IsStaff = in.isStaff
            /\ tok.HasLLMSubscription = in.hasSubscription
            /\ tok.MaxMonthlySpendInCents = in.maxMonthlySpend
            /\ tok.CustomMonthlyAllowanceInCents = in.customAllowance
            /\ tok.Iat = issued[1].at \div TicksPerSecond
            /\ tok.Exp = LifetimeEnd \div TicksPerSecond
            /\ tok.Jti = <<"base64", issued[1].at>>

C9_Original ==
    issued # <<>> => RoundTripExcept(issued[1].input.accountCreatedAt)

(***************************************************************************)
(* C9 amended: every claim field round-trips, the account-creation time    *)
(* truncated to the whole second (it is carried as Unix seconds).          *)
(***************************************************************************)
C9_RoundTripToTheSecond ==
    issued # <<>> =>
        RoundTripExcept((issued[1].input.accountCreatedAt \div TicksPerSecond)
                            * TicksPerSecond)

\* a token with a custom allowance of 0 and a sub-second account-creation time
\* was issued and validated
C9_Witness ==
    /\ ValidatedGenuine
    /\ lastValidate.result.err = "nil"
    /\ issued[1].input.customAllowance = <<0>>
    /\ issued[1].input.accountCreatedAt % TicksPerSecond # 0
    /\ lastValidate.result.token[1].CustomMonthlyAllowanceInCents = <<0>>

(***************************************************************************)
(* Claims about the authorization pipeline, under SpecAuth.                 *)
(***************************************************************************)

(***************************************************************************)
(* C2: ValidateAccess returns the error of the first failing stage in the  *)
(* order region, model/plan, spend, rate (none when all pass); the stages  *)
(* after the first failure have no influence on what it returns.           *)
(***************************************************************************)
C2_FirstFailingStage ==
    authOut.done =>
        authOut.access =
            IF authOut.country.err # "nil" THEN authOut.country
            ELSE IF authOut.model.err # "nil" THEN authOut.model
            ELSE IF authOut.spend.err # "nil" THEN authOut.spend
            ELSE authOut.rate

\* a call that fails all four stages reports the region error
C2_Witness ==
    /\ authOut.done
    /\ authOut.country.err = "ErrTorNetwork"
    /\ authOut.model.err = "ErrModelNotAvailable"
    /\ authOut.spend.err = "ErrSpendingLimitReached"
    /\ authOut.rate.err = "ErrRateLimitExceeded"
    /\ authOut.access.err = "ErrTorNetwork"

(***************************************************************************)
(* C6 as stated: with 5 users in recent minutes and a ceiling of 25        *)
(* requests/minute the per-user ceiling is 5, and the rate check of a      *)
(* user with 5 requests recorded this minute fails with RateLimitExceeded. *)
(***************************************************************************)
C6_SixthRequestRejected ==
    (/\ authOut.done
     /\ authIn.model = <<"copilot", <<"copilot-chat">>>>
     /\ authIn.activeUsers.UsersInRecentMinutes = 5
     /\ authIn.usage.RequestsThisMinute = 5)
        => /\ 25 \div authIn.activeUsers.UsersInRecentMinutes = 5
           /\ authOut.rate.err = "ErrRateLimitExceeded"

(***************************************************************************)
(* C10: a staff token passes the model/plan check for every provider and   *)
(* model name, and the spend check for every spend, allowance and          *)
(* subscription state.                                                     *)
(***************************************************************************)
C10_StaffBypass ==
    (authOut.done /\ authIn.token.IsStaff) =>
        /\ authOut.model.err = "nil"
        /\ authOut.spend.err = "nil"

\* a staff token without subscription, over its allowance, asking for a model
\* outside the allow-list
C10_Witness ==
    /\ authOut.done
    /\ authIn.token.IsStaff
    /\ ~authIn.token.HasLLMSubscription
    /\ authIn.token.CustomMonthlyAllowanceInCents = <<0>>
    /\ authIn.currentSpending = 1500
    /\ authIn.model = <<"google", <<"gemini-pro">>>>
    /\ authOut.model.err = "nil"
    /\ authOut.spend.err = "nil"

(***************************************************************************)
(* C1: a provider HTTP call is issued for a completion request only if the *)
(* request's token was verified, its account passed the age gate, and the  *)
(* region, model/plan, spend and rate checks all pass on the request's     *)
(* data; a request answered with a token, account-age or authorization     *)
(* error has reached no provider.                                          *)
(***************************************************************************)
RejectionErrors ==
    {"invalid or missing authorization header", "ErrTokenExpired", "ErrInvalidToken",
     "invalid request body", "ErrAccountTooYoung", "ErrNoCountryCode", "ErrTorNetwork",
     "ErrRestrictedRegion", "ErrModelNotAvailable", "ErrSpendingLimitReached",
     "ErrRateLimitExceeded", "unknown model"}

C1_CallOnlyIfAuthorized ==
    (req.upstream /\ req.pc = "Returned") =>
        /\ req.tokenErr = "nil"
        /\ ~AccountTooYoung(req.token[1], req.gateAt)
        /\ AuthorizeAccessForCountry(req.countryCode, req.params[1].Provider) = NoError
        /\ AuthorizeAccessToModel(req.token[1], req.params[1].Provider, req.model)
                = NoError
        /\ CheckSpendingLimit(req.token[1], 0) = NoError
        /\ CheckRateLimit(req.token[1].UserID, req.params[1].Provider, req.model,
                          req.usage[1], req.activeCount[1]) = NoError

C1_RejectedNeverCalls ==
    /\ req.upstream => req.tokenErr = "nil"
    /\ (req.pc = "Idle" /\ req.err \in RejectionErrors) => ~req.upstream
    /\ req.pc \in {"Decode", "AccountAge", "GetModelUsage", "GetActiveUserCount",
                   "ValidateAccess", "Route"} => ~req.upstream

C1_ProviderCallOnlyIfAuthorized ==
    /\ C1_CallOnlyIfAuthorized
    /\ C1_RejectedNeverCalls

\* a provider answered the request of a user who is not staff, after usage had
\* been recorded for that user
C1_Witness ==
    /\ req.pc = "Returned"
    /\ req.upstream
    /\ req.respStatus = 200
    /\ ~req.token[1].IsStaff
    /\ req.usage[1].RequestsThisMinute > 0

(***************************************************************************)
(* C5: in the burst (copilot-chat at 25 requests a minute, one active      *)
(* user, every request within one minute) the user's 25th request is       *)
(* admitted and the 26th is rejected with RateLimitExceeded.               *)
(***************************************************************************)
BurstAdmitted ==
    \/ req.pc \in {"Route", "Returned"}
    \/ req.pc = "Idle" /\ req.status = 200

BurstDecided == BurstAdmitted \/ (req.pc = "Idle" /\ req.status # 0)

C5_TwentySixthRejected ==
    /\ (served = BurstRequests - 1 /\ BurstDecided) => BurstAdmitted
    /\ (served = BurstRequests /\ BurstDecided) =>
            (req.pc = "Idle" /\ req.err = "ErrRateLimitExceeded")

(***************************************************************************)
(* C11: the region check returns NoCountryCode when the country code is    *)
(* absent or "XX", TorNetworkBlocked when it is the TOR sentinel,          *)
(* RegionRestricted when it is on the denylist, and nil for every other    *)
(* code; a call changes nothing but its own result.                        *)
(***************************************************************************)
C11_Denylist ==
    {"AF", "BY", "CF", "CN", "CU", "ER", "ET", "IR", "KP", "XK", "LY", "MM", "RU",
     "SO", "SS", "SD", "SY", "VE", "YE"}

C11_Expected(countryCode) ==
    IF countryCode = <<>> \/ countryCode = <<"XX">> THEN "ErrNoCountryCode"
    ELSE IF countryCode = <<"T1">> THEN "ErrTorNetwork"
    ELSE IF countryCode[1] \in C11_Denylist THEN "ErrRestrictedRegion"
    ELSE "nil"

C11_Results ==
    authOut.done => authOut.country.err = C11_Expected(authOut.countryCode)

C11_RegionCheck ==
    /\ []C11_Results
    /\ [][UNCHANGED <<now, limiterVars, tokenVars, authIn, trackerVars, gatewayVars,
                       callerVars>>]_vars

\* a denylisted code was refused
C11_Witness ==
    /\ authOut.done
    /\ authOut.countryCode = <<"KP">>
    /\ authOut.country.err = "ErrRestrictedRegion"

(***************************************************************************)
(* C12: for a non-staff token with effective allowance A (the custom       *)
(* allowance if present, else the system default) the spend check passes   *)
(* when spend < A; when spend >= A it fails with SpendingLimitReached      *)
(* unless the token has a subscription and spend - A is below its max      *)
(* monthly spend; spend - A is computed only when spend >= A, so the       *)
(* unsigned difference is the difference of the numbers.                   *)
(***************************************************************************)
C12_Allowance(token) ==
    IF token.CustomMonthlyAllowanceInCents # <<>>
    THEN token.CustomMonthlyAllowanceInCents[1]
    ELSE 1000

C12_Expected(token, spend) ==
    IF spend < C12_Allowance(token) THEN "nil"
    ELSE IF token.HasLLMSubscription
            /\ spend - C12_Allowance(token) < token.MaxMonthlySpendInCents
    THEN "nil"
    ELSE "ErrSpendingLimitReached"

C12_SpendingLimit ==
    (authOut.done /\ ~authIn.token.IsStaff) =>
        /\ authOut.spend.err = C12_Expected(authIn.token, authIn.currentSpending)
        /\ MonthlySpend(authIn.token, authIn.currentSpending) # <<>> =>
            /\ authIn.currentSpending >= C12_Allowance(authIn.token)
            /\ MonthlySpend(authIn.token, authIn.currentSpending)[1] >= 0
            /\ MonthlySpend(authIn.token, authIn.currentSpending)[1]
                    <= authIn.currentSpending

\* a subscriber past the custom allowance, still below the max monthly spend
C12_Witness ==
    /\ authOut.done
    /\ ~authIn.token.IsStaff
    /\ authIn.token.HasLLMSubscription
    /\ authIn.token.CustomMonthlyAllowanceInCents = <<500>>
    /\ authIn.token.MaxMonthlySpendInCents = 1000
    /\ authIn.currentSpending = 1499
    /\ MonthlySpend(authIn.token, authIn.currentSpending) = <<999>>
    /\ authOut.spend.err = "nil"

(***************************************************************************)
(* C14: every pair on the fixed allow-list (any model of the Copilot       *)
(* provider, Anthropic claude-3-5-sonnet, Anthropic claude-3-7-sonnet) is  *)
(* available to every authenticated token: for a non-staff token from a    *)
(* permitted country, with spend below its allowance and no recorded       *)
(* usage, ValidateAccess returns no error.                                 *)
(***************************************************************************)
AllowListed(provider, modelName) ==
    \/ provider = "copilot"
    \/ provider = "anthropic" /\ modelName \in {<<"claude-3-5-sonnet">>,
                                                <<"claude-3-7-sonnet">>}

C14_AllowListAvailable ==
    (/\ authOut.done
     /\ ~authIn.token.IsStaff
     /\ authIn.countryCode = <<"US">>
     /\ authIn.currentSpending < FreeTier(authIn.token)
     /\ authIn.usage = ZeroUsage
     /\ AllowListed(authIn.model[1], authIn.model[2]))
        => authOut.access = NoError

(***************************************************************************)
(* C15: for a non-staff token the model/plan check fails with              *)
(* ModelNotAvailable for every pair that is neither on the allow-list nor  *)
(* the configured closed-beta model; no closed-beta model is configured,   *)
(* so no pair outside the allow-list passes, the empty model name          *)
(* included.                                                               *)
(***************************************************************************)
C15_OutsideAllowListRefused ==
    (/\ authOut.done
     /\ ~authIn.token.IsStaff
     /\ ~AllowListed(authIn.model[1], authIn.model[2]))
        => authOut.model.err = "ErrModelNotAvailable"

(***************************************************************************)
(* C13: a completion request whose token has an account younger than the   *)
(* 7-day minimum (created 2 days ago), no subscription and no staff flag   *)
(* is rejected with AccountTooYoung before any authorization stage runs,   *)
(* also when the region, model, spend or rate check would fail as well.    *)
(***************************************************************************)
C13_Young(token, t) ==
    /\ t - token.AccountCreatedAt < 7 * 24 * 3600 * TicksPerSecond
    /\ ~token.IsStaff
    /\ ~token.HasLLMSubscription

C13_YoungAccountRejected ==
    /\ req.pc \in {"GetModelUsage", "GetActiveUserCount", "ValidateAccess", "Route",
                   "Returned"}
            => ~C13_Young(req.token[1], req.gateAt)
    /\ req.access # <<>> => ~C13_Young(req.token[1], req.gateAt)
    /\ req.err = "ErrAccountTooYoung" =>
            /\ C13_Young(req.token[1], req.gateAt)
            /\ req.pc = "Idle"
            /\ req.status = 400
            /\ req.usage = <<>>
            /\ req.activeCount = <<>>
            /\ req.access = <<>>
            /\ ~req.upstream

\* an account created 2 days ago was refused for its age, asking from a
\* denylisted country for a model outside its plan
C13_Witness ==
    /\ req.err = "ErrAccountTooYoung"
    /\ req.gateAt - req.token[1].AccountCreatedAt = 2 * 24 * 3600 * TicksPerSecond
    /\ req.countryCode = <<"CN">>
    /\ req.params[1] = [Provider |-> "openai", Model |-> <<"gpt-4">>]
    /\ AuthorizeAccessForCountry(req.countryCode, "openai") # NoError
    /\ AuthorizeAccessToModel(req.token[1], "openai", <<"gpt-4">>) # NoError

(***************************************************************************)
(* C16: a request to the completion or the list-models endpoint whose      *)
(* Authorization header is absent or does not start with the bearer        *)
(* prefix is answered unauthorized before anything else is done: no body   *)
(* decoded, no usage or active-user count read, no authorization stage     *)
(* run, no model listed, no provider called.                               *)
(***************************************************************************)
C16_NoBearerHardReject ==
    (req.endpoint # "none" /\ ~req.bearer) =>
        /\ req.pc = "Idle"
        /\ req.status = 401
        /\ req.err = "invalid or missing authorization header"
        /\ ~req.expiredHeader
        /\ req.token = <<>>
        /\ req.params = <<>>
        /\ req.countryCode = <<>>
        /\ req.usage = <<>>
        /\ req.activeCount = <<>>
        /\ req.access = <<>>
        /\ req.listed = <<>>
        /\ ~req.upstream

\* a completion request without a bearer header was answered 401, after usage
\* had been recorded
C16_Witness ==
    /\ req.endpoint = "completion"
    /\ ~req.bearer
    /\ req.status = 401
    /\ userUsage # <<>>

(***************************************************************************)
(* C19: the list-models response holds exactly the catalog entries for     *)
(* which the region check (for the request's country code) and the         *)
(* model/plan check (for the caller's token) both pass, so every listed    *)
(* model passes those two stages of a completion request made with the     *)
(* same token and country code.                                            *)
(***************************************************************************)
C19_Listed == {req.listed[i] : i \in 1..Len(req.listed)}

C19_PassesBoth(m) ==
    /\ AuthorizeAccessForCountry(req.countryCode, m.Provider).err = "nil"
    /\ AuthorizeAccessToModel(req.token[1], m.Provider, m.Name).err = "nil"

C19_ListIsExact ==
    (req.endpoint = "models" /\ req.status = 200) =>
        /\ \A i \in 1..Len(DefaultModels) :
                DefaultModels[i] \in C19_Listed <=> C19_PassesBoth(DefaultModels[i])
        /\ \A m \in C19_Listed :
                /\ \E i \in 1..Len(DefaultModels) : m = DefaultModels[i]
                /\ ValidateAccess(req.token[1], req.countryCode, m.Provider,
                                  normalizeModelName(m.Provider, m.Name),
                                  GetModelUsage(req.token[1].UserID, m.Provider, m.Name),
                                  GetActiveUserCount(m.Provider, m.Name), 0).err
                       \notin {"ErrNoCountryCode", "ErrTorNetwork", "ErrRestrictedRegion",
                               "ErrModelNotAvailable"}
        /\ Cardinality(C19_Listed) = Len(req.listed)

\* a caller who is not staff was listed one model of the three
C19_Witness ==
    /\ req.endpoint = "models"
    /\ req.status = 200
    /\ ~req.token[1].IsStaff
    /\ req.countryCode = <<"US">>
    /\ Len(req.listed) = 1
    /\ req.listed[1].Name = <<"copilot-chat">>

(***************************************************************************)
(* C18: each failure kind is signalled by its own response header and no   *)
(* other: SpendingLimitReached by the spend-reached header,                *)
(* RateLimitExceeded by Retry-After, TokenExpired by the token-expired     *)
(* header; an unauthorized response for an invalid token or a missing      *)
(* header carries none of them.                                            *)
(***************************************************************************)
C18_Headers ==
    req.errorHeaders \cup (IF req.expiredHeader THEN {"X-LLM-Token-Expired"} ELSE {})

C18_OwnHeaderOnly ==
    req.status # 0 =>
        C18_Headers =
            IF req.err = "ErrSpendingLimitReached" THEN {"X-LLM-Monthly-Spend-Reached"}
            ELSE IF req.err = "ErrRateLimitExceeded" THEN {"Retry-After"}
            ELSE IF req.err = "ErrTokenExpired" THEN {"X-LLM-Token-Expired"}
            ELSE {}

\* a completion request was refused for the spend limit
C18_Witness ==
    /\ req.endpoint = "completion"
    /\ req.status = 400
    /\ req.err = "ErrSpendingLimitReached"
    /\ C18_Headers = {"X-LLM-Monthly-Spend-Reached"}

(***************************************************************************)
(* C17: a completion request moves only forward through Received,          *)
(* TokenVerified, Authorized, Dispatched, Streaming, then Completed or     *)
(* Failed: no stage is entered again (the provider call is issued at most  *)
(* once and never retried), nothing further happens to a request once it   *)
(* has failed, and the failure reported is the error of the stage at which *)
(* it failed.                                                              *)
(***************************************************************************)
\* how far the handler is: 0 before a request, 1 to 5 with the token
\* verified, 6 authorized, 7 back from the provider call, 8 answered
C17_Rank(r) ==
    CASE r.pc = "Decode" -> 1
      [] r.pc = "AccountAge" -> 2
      [] r.pc = "GetModelUsage" -> 3
      [] r.pc = "GetActiveUserCount" -> 4
      [] r.pc = "ValidateAccess" -> 5
      [] r.pc = "Route" -> 6
      [] r.pc = "Returned" -> 7
      [] r.pc = "Idle" /\ r.status # 0 -> 8
      [] OTHER -> 0

\* the error of the stage the handler is at, were the request to fail there
C17_StageError(r) ==
    CASE r.pc = "Decode" -> {"invalid request body"}
      [] r.pc = "AccountAge" -> {"ErrAccountTooYoung"}
      [] r.pc = "ValidateAccess" ->
            {ValidateAccess(r.token[1], r.countryCode, r.params[1].Provider, r.model,
                            r.usage[1], r.activeCount[1], 0).err}
      [] r.pc = "Returned" ->
            IF r.err # "nil" THEN {r.err} ELSE {"provider returned error"}
      [] OTHER -> {}

C17_Step ==
    /\ served' = served =>
            /\ C17_Rank(req') > C17_Rank(req)
            /\ req.upstream => (req'.upstream /\ req.pc = "Returned")
            /\ (req'.upstream /\ ~req.upstream) => req.pc = "Route"
            /\ (req'.pc = "Idle" /\ req'.status # 200) =>
                    req'.err \in C17_StageError(req)
    /\ served' # served =>
            /\ C17_Rank(req) \in {0, 8}
            /\ served' = served + 1
            /\ ~req'.upstream
            /\ req'.pc = "Idle" => (req'.err = req'.tokenErr \/ req'.status = 200)

C17_ForwardOnly == [][req' # req => C17_Step]_vars

\* the second request failed after its provider call
C17_Witness ==
    /\ req.endpoint = "completion"
    /\ req.pc = "Idle"
    /\ req.upstream
    /\ req.status = 500
    /\ served = 2

(***************************************************************************)
(* C20: a completion request that names a provider which is not one of     *)
(* the recognized providers fails with ProviderNotSupported (the request   *)
(* taken past the age gate, from a permitted country and within its        *)
(* spend).                                                                 *)
(***************************************************************************)
C20_UnknownProvider ==
    /\ req.pc = "ValidateAccess"
    /\ req.params[1].Provider \notin {"copilot", "openai", "anthropic", "google"}
    /\ AuthorizeAccessForCountry(req.countryCode, req.params[1].Provider).err = "nil"
    /\ CheckSpendingLimit(req.token[1], 0).err = "nil"

C20_ProviderNotSupported ==
    [][(C20_UnknownProvider /\ req' # req) =>
            (req'.pc = "Idle" => req'.err = "ErrProviderNotSupported")]_vars

(***************************************************************************)
(* C21: dispatch uses the key configured for the request's provider; for   *)
(* Anthropic the staff key only when the token is staff and a staff key    *)
(* is configured, and the general key otherwise, so a non-staff request    *)
(* never uses the staff key; when the selected key is empty the call       *)
(* fails with a configuration error and nothing is sent upstream.          *)
(***************************************************************************)
C21_Selected(provider, isStaff) ==
    IF provider = ProviderAnthropic /\ isStaff /\ "anthropic-staff" \in apiKeys
    THEN "anthropic-staff"
    ELSE provider

C21_Credential ==
    authIn # <<>> =>
        LET selected == C21_Selected(authIn[1].provider, authIn[1].isStaff)
        IN  /\ authOut.upstream => authOut.apiKey = <<selected>> /\ selected \in apiKeys
            /\ ~authIn[1].isStaff => authOut.apiKey # <<"anthropic-staff">>
            /\ selected \notin apiKeys =>
                    /\ authOut.err = "API key not configured"
                    /\ ~authOut.upstream

C21_Witness ==
    /\ authIn # <<>>
    /\ authIn[1].provider = ProviderAnthropic
    /\ authIn[1].isStaff
    /\ "anthropic-staff" \notin apiKeys
    /\ authOut.upstream
    /\ authOut.apiKey = <<"anthropic">>

C23_Counters ==
    {"RequestsThisMinute", "TokensThisMinute", "InputTokensThisMinute",
     "OutputTokensThisMinute", "TokensThisDay"}

C23_Recording == {c \in DOMAIN callers : callers[c].op = "RecordUsage"}

\* with no RecordUsage call under way, the records are the totals of the calls
C23_Totals ==
    C23_Recording = {} =>
        /\ DOMAIN userUsage = DOMAIN recorded
        /\ \A u \in DOMAIN recorded :
            /\ userUsage[u].RequestsThisMinute = recorded[u].n
            /\ userUsage[u].InputTokensThisMinute = recorded[u].input
            /\ userUsage[u].OutputTokensThisMinute = recorded[u].output
            /\ userUsage[u].TokensThisMinute = recorded[u].input + recorded[u].output
            /\ userUsage[u].TokensThisDay = recorded[u].input + recorded[u].output

\* a step that changes the table is the store of one call: it adds that call's
\* counts to its user's record and touches no other record
C23_Store ==
    userUsage' # userUsage =>
        \E c \in C23_Recording :
            LET a == callers[c].args[1]
                before == GetModelUsage(a.userID, a.provider, a.model)
            IN  /\ callers[c].pc = "Store"
                /\ DOMAIN userUsage' = DOMAIN userUsage \cup {a.userID}
                /\ \A v \in DOMAIN userUsage \ {a.userID} : userUsage'[v] = userUsage[v]
                /\ \A k \in C23_Counters : userUsage'[a.userID][k] >= before[k]
                /\ userUsage'[a.userID].RequestsThisMinute = before.RequestsThisMinute + 1
                /\ userUsage'[a.userID].InputTokensThisMinute
                        = before.InputTokensThisMinute + a.usage.Input
                /\ userUsage'[a.userID].OutputTokensThisMinute
                        = before.OutputTokensThisMinute + a.usage.Output

C23_RecordUsageTotals == []C23_Totals /\ [][C23_Store]_vars

\* two calls for one user were under way together, and both are counted
C23_Witness ==
    /\ C23_Recording = {}
    /\ 1 \in DOMAIN userUsage
    /\ userUsage[1].RequestsThisMinute = 2
    /\ userUsage[1].InputTokensThisMinute = 5
    /\ userUsage[1].OutputTokensThisMinute = 2
    /\ userUsage[1].TokensThisDay = 7

(***************************************************************************)
(* C24: every completion call attempted or completed through the gateway   *)
(* is recorded by the usage tracker: once the request has finished, the    *)
(* calling user's record counts it (at least one request this minute for   *)
(* a user whose call went upstream).                                       *)
(***************************************************************************)
C24_CallFinished ==
    /\ req.pc = "Idle"
    /\ req.endpoint = "completion"
    /\ req.upstream

C24_FinishedCallRecorded ==
    C24_CallFinished =>
        /\ 1 \in DOMAIN userUsage
        /\ userUsage[1].RequestsThisMinute >= 1

(***************************************************************************)
(* C25: GetModelUsage and GetActiveUserCount are pure reads: no step of    *)
(* theirs changes the usage table or the active-user table (a read creates *)
(* no entry), and for an absent entry they return a usage record of zeros, *)
(* respectively an active-user count of 1 and 1.                           *)
(***************************************************************************)
C25_Reading ==
    {c \in DOMAIN callers :
        /\ callers[c].op \in {"GetModelUsage", "GetActiveUserCount"}
        /\ callers[c].pc \in {"Lock", "Read", "Unlock"}}

\* a reader that has its value and still holds the read lock
C25_Returned(c) == c \in C25_Reading /\ callers[c].pc = "Unlock"

C25_Values ==
    \A c \in DOMAIN callers :
        C25_Returned(c) =>
            LET a == callers[c].args[1]
                ret == callers[c].ret[1]
            IN  IF callers[c].op = "GetModelUsage"
                THEN IF a.userID \in DOMAIN userUsage THEN ret = userUsage[a.userID]
                     ELSE /\ ret.UserID = a.userID
                          /\ ret.Provider = a.provider
                          /\ ret.Model = a.model
                          /\ \A k \in C23_Counters : ret[k] = 0
                ELSE IF ModelKey(a.provider, a.model) \in DOMAIN activeUsers
                     THEN ret = activeUsers[ModelKey(a.provider, a.model)]
                     ELSE ret = [UsersInRecentMinutes |-> 1, UsersInRecentDays |-> 1]

C25_ReadStep ==
    (\E c \in C25_Reading : callers'[c] # callers[c]) =>
        /\ userUsage' = userUsage
        /\ activeUsers' = activeUsers

C25_PureReads == []C25_Values /\ [][C25_ReadStep]_vars

\* both readers hold the read lock on absent entries, next to a recorded user
C25_Witness ==
    /\ \E c, d \in DOMAIN callers :
        /\ C25_Returned(c) /\ C25_Returned(d)
        /\ callers[c].op = "GetModelUsage"
        /\ callers[c].args[1].userID \notin DOMAIN userUsage
        /\ callers[d].op = "GetActiveUserCount"
        /\ ModelKey(callers[d].args[1].provider, callers[d].args[1].model)
                \notin DOMAIN activeUsers
    /\ userUsage # <<>>

(***************************************************************************)
(* C26: normalizeModelName(provider, name) returns the name of the catalog *)
(* entry of that provider whose name is the longest prefix of the          *)
(* requested name, whatever the entries of other providers are, and the    *)
(* requested name itself when no entry of the provider is a prefix of it;  *)
(* normalizing the result again changes nothing.                           *)
(***************************************************************************)
C26_Prefixes(provider, name) ==
    {i \in 1..Len(DefaultModels) :
        /\ DefaultModels[i].Provider = provider
        /\ Len(DefaultModels[i].Name) <= Len(name)
        /\ \A k \in 1..Len(DefaultModels[i].Name) : DefaultModels[i].Name[k] = name[k]}

C26_LongestPrefix ==
    authIn # <<>> =>
        LET matches == C26_Prefixes(authIn[1].provider, authIn[1].name)
        IN  /\ matches = {} => authOut.once = authIn[1].name
            /\ matches # {} =>
                    /\ \E i \in matches : authOut.once = DefaultModels[i].Name
                    /\ \A i \in matches : Len(DefaultModels[i].Name) <= Len(authOut.once)
            /\ authOut.twice = authOut.once

C26_Witness ==
    /\ authIn = <<[provider |-> ProviderCopilot, name |-> <<"copilot-chat", "-preview">>]>>
    /\ authOut.once = <<"copilot-chat">>
    /\ authOut.twice = <<"copilot-chat">>

(***************************************************************************)
(* C27: a rate limit of capacity 0 is rejected when it is configured or    *)
(* constructed, so that no Check call is made with one and no Check call   *)
(* divides by zero.                                                        *)
(***************************************************************************)
C27_NoDivisionByZeroInCheck == ~lastCheck.panic

(***************************************************************************)
(* C28: CheckRateLimit takes each per-user ceiling as the catalog ceiling  *)
(* divided, in whole numbers, by the active-user count raised to at least  *)
(* 1 (the four per-minute ceilings by the users of the recent minutes, the *)
(* daily ceiling by the users of the recent days), compares the counters   *)
(* in the order requests, tokens, input tokens, output tokens, daily       *)
(* tokens, and fails with RateLimitExceeded naming the first counter in    *)
(* that order that is above its ceiling; no active-user count makes it     *)
(* divide by zero.                                                         *)
(***************************************************************************)
C28_Names ==
    <<"requests_per_minute", "tokens_per_minute", "input_tokens_per_minute",
      "output_tokens_per_minute", "tokens_per_day">>

C28_Usage(usage) ==
    <<usage.RequestsThisMinute, usage.TokensThisMinute, usage.InputTokensThisMinute,
      usage.OutputTokensThisMinute, usage.TokensThisDay>>

C28_Ceilings(model, activeCount) ==
    LET minutes == IF activeCount.UsersInRecentMinutes >= 1
                   THEN activeCount.UsersInRecentMinutes ELSE 1
        days    == IF activeCount.UsersInRecentDays >= 1
                   THEN activeCount.UsersInRecentDays ELSE 1
    IN  <<model.MaxRequestsPerMinute \div minutes, model.MaxTokensPerMinute \div minutes,
          model.MaxInputTokensPerMinute \div minutes,
          model.MaxOutputTokensPerMinute \div minutes, model.MaxTokensPerDay \div days>>

C28_Over(call) ==
    LET model == CHOOSE m \in {DefaultModels[i] : i \in 1..Len(DefaultModels)} :
                    m.Provider = call.provider /\ m.Name = call.modelName
    IN  {i \in 1..5 : C28_Usage(call.usage)[i] > C28_Ceilings(model, call.activeUsers)[i]}

C28_Known(call) ==
    \E i \in 1..Len(DefaultModels) :
        DefaultModels[i].Provider = call.provider /\ DefaultModels[i].Name = call.modelName

C28_FirstExceeded ==
    (authIn # <<>> /\ C28_Known(authIn[1])) =>
        IF C28_Over(authIn[1]) = {} THEN authOut = NoError
        ELSE /\ authOut.err = "ErrRateLimitExceeded"
             /\ \E i \in C28_Over(authIn[1]) :
                    /\ authOut.detail = C28_Names[i]
                    /\ \A j \in C28_Over(authIn[1]) : i <= j

\* no user in the recent minutes, four in the recent days, and three counters over
C28_Witness ==
    /\ authIn # <<>>
    /\ C28_Known(authIn[1])
    /\ authIn[1].activeUsers = [UsersInRecentMinutes |-> 0, UsersInRecentDays |-> 4]
    /\ C28_Over(authIn[1]) = {2, 3, 5}
    /\ authOut.detail = "tokens_per_minute"

(***************************************************************************)
(* C29: concurrent Check calls are serialized by the limiter's one mutex:  *)
(* the lookup or creation of the bucket, its refill and its decrement are  *)
(* done by one call at a time, so at most one bucket is created for a key  *)
(* and, for calls on one key with no refill time elapsing, no more calls   *)
(* are admitted than the bucket had tokens.                                *)
(***************************************************************************)
C29_Inside ==
    {c \in DOMAIN callers :
        /\ callers[c].op = "Check"
        /\ callers[c].pc \in {"Lookup", "Create", "Dirty", "Refill", "Test", "Decrement",
                               "Unlock"}}

C29_Created(key) ==
    {c \in DOMAIN callers :
        /\ callers[c].op = "Check"
        /\ CheckKey(c) = key
        /\ callers[c].existing = <<FALSE>>
        /\ callers[c].pc \notin {"Lock", "Lookup", "Create"}
        /\ callers[c].ret # <<"panic">>}

C29_Admitted(key) ==
    {c \in DOMAIN callers :
        callers[c].op = "Check" /\ CheckKey(c) = key /\ callers[c].ret = <<"true">>}

C29_Serialized ==
    /\ Cardinality(C29_Inside) <= 1
    /\ \A c \in C29_Inside : mu = <<c>>
    /\ \A key \in DOMAIN buckets :
        /\ Cardinality(C29_Created(key)) = 1
        /\ Cardinality(C29_Admitted(key)) <= buckets[key].capacity
        /\ buckets[key].tokenCount + Cardinality(C29_Admitted(key)) = buckets[key].capacity

\* every caller has returned from a call on one key of capacity 1: one was admitted
C29_Witness ==
    LET key == getBucketKey(1, "stream-requests")
    IN  /\ key \in DOMAIN buckets
        /\ buckets[key].capacity = 1
        /\ \A c \in DOMAIN callers : CheckAt(c, "done")
        /\ \A c \in DOMAIN callers : CheckKey(c) = key
        /\ Cardinality(C29_Admitted(key)) = 1

(***************************************************************************)
(* C30: the usage record and the active-user count that one authorization *)
(* decision uses are one snapshot of the tracker: no RecordUsage takes     *)
(* effect between the read of the usage record and the read of the         *)
(* active-user count, and the stages that follow use the two values read   *)
(* and do not read the tracker again.                                      *)
(***************************************************************************)
C30_BetweenTheReads == req.pc = "GetActiveUserCount"

C30_OneSnapshot ==
    [][/\ C30_BetweenTheReads => (userUsage' = userUsage /\ activeUsers' = activeUsers)
       /\ (req.pc \in {"ValidateAccess", "Route"} /\ req'.pc \in {"ValidateAccess", "Route"})
                => (req'.usage = req.usage /\ req'.activeCount = req.activeCount)]_vars


(***************************************************************************)
(* Requests served concurrently, one goroutine each.  A completion request *)
(* reads the usage and the active-user count (service.go:156-157), each    *)
(* read taking and releasing the read lock, then waits on the provider     *)
(* call and hands the stream to the handler, which copies it to the caller *)
(* (io.Copy).  A stream request builds its own RateLimiter, calls Check on *)
(* it and then writes its chunks.  req[c] is the stage of the request of   *)
(* goroutine c; one stream request's limiter is followed at a time.        *)
(***************************************************************************)
StreamRateLimit == NewBasicRateLimit(4, Seconds(60), "stream-requests")

IdleCall == [kind |-> "none", pc |-> "idle"]

Suspended(c) == req[c].pc \in {"upstream", "copy", "write"}

RequestAt(c, kind, pc) ==
    /\ req[c].kind = kind
    /\ req[c].pc = pc
    /\ callers[c].pc \in {"idle", "done"}

\* usage := s.GetModelUsage(token.UserID, provider, normalizedModel)
PerformCompletionEnter(c) ==
    /\ req[c] = IdleCall /\ callers[c] = IdleFrame
    /\ \E userID \in TrackerUsers, m \in TrackerRecordedModels :
         Enter(c, "GetModelUsage",
               [userID |-> userID, provider |-> m.Provider, model |-> m.Model])
    /\ req' = [req EXCEPT ![c] = [kind |-> "completion", pc |-> "GetModelUsage"]]
    /\ UNCHANGED <<now, limiterVars, jwtSigFirst, tokenVars, authVars, trackerVars,
                   apiKeys, served, proc, usageLock, mu, recorded>>

\* activeUsers := s.GetActiveUserCount(provider, normalizedModel)
PerformCompletionReadActive(c) ==
    /\ RequestAt(c, "completion", "GetModelUsage")
    /\ \E m \in TrackerRecordedModels :
         Enter(c, "GetActiveUserCount", [provider |-> m.Provider, model |-> m.Model])
    /\ req' = [req EXCEPT ![c].pc = "GetActiveUserCount"]
    /\ UNCHANGED <<now, limiterVars, jwtSigFirst, tokenVars, authVars, trackerVars,
                   apiKeys, served, proc, usageLock, mu, recorded>>

\* ValidateAccess, then the provider switch: an error returns, a call waits upstream
PerformCompletionCall(c) ==
    /\ RequestAt(c, "completion", "GetActiveUserCount")
    /\ \E refused \in BOOLEAN :
         req' = [req EXCEPT ![c] = IF refused THEN IdleCall
                                   ELSE [kind |-> "completion", pc |-> "upstream"]]
    /\ UNCHANGED <<now, limiterVars, jwtSigFirst, tokenVars, authVars, trackerVars,
                   apiKeys, served, proc, callerVars>>

\* the provider call returns: an error ends the request, a response is copied
UpstreamReturns(c) ==
    /\ RequestAt(c, "completion", "upstream")
    /\ \E failed \in BOOLEAN :
         req' = [req EXCEPT ![c] = IF failed THEN IdleCall
                                   ELSE [kind |-> "completion", pc |-> "copy"]]
    /\ UNCHANGED <<now, limiterVars, jwtSigFirst, tokenVars, authVars, trackerVars,
                   apiKeys, served, proc, callerVars>>

\* io.Copy returns and the handler with it
CopyEnds(c) ==
    /\ RequestAt(c, "completion", "copy")
    /\ req' = [req EXCEPT ![c] = IdleCall]
    /\ UNCHANGED <<now, limiterVars, jwtSigFirst, tokenVars, authVars, trackerVars,
                   apiKeys, served, proc, callerVars>>

\* limiter := utils.NewRateLimiter(); limiter.Check(rateLimit, 1) begins
HandleStreamEnter(c) ==
    /\ req[c] = IdleCall /\ callers[c] = IdleFrame
    /\ \A d \in Callers : req[d].kind # "stream"
    /\ buckets' = <<>>
    /\ dirtyBuckets' = {}
    /\ Enter(c, "Check", [limit |-> StreamRateLimit, userID |-> 1])
    /\ req' = [req EXCEPT ![c] = [kind |-> "stream", pc |-> "Check"]]
    /\ UNCHANGED <<now, hist, lastCheck, jwtSigFirst, tokenVars, authVars, trackerVars,
                   apiKeys, served, proc, usageLock, mu, recorded>>

\* Check returned: 429 when it refused, else the header and the chunks are written
HandleStreamWrite(c) ==
    /\ RequestAt(c, "stream", "Check")
    /\ callers[c].pc = "done"
    /\ req' = [req EXCEPT ![c] = IF callers[c].ret = <<"true">>
                                  THEN [kind |-> "stream", pc |-> "write"]
                                  ELSE IdleCall]
    /\ callers' = [callers EXCEPT ![c] = IdleFrame]
    /\ UNCHANGED <<now, limiterVars, jwtSigFirst, tokenVars, authVars, trackerVars,
                   apiKeys, served, proc, usageLock, mu, recorded>>

\* the last chunk is flushed and the handler returns
HandleStreamDone(c) ==
    /\ RequestAt(c, "stream", "write")
    /\ req' = [req EXCEPT ![c] = IdleCall]
    /\ UNCHANGED <<now, limiterVars, jwtSigFirst, tokenVars, authVars, trackerVars,
                   apiKeys, served, proc, callerVars>>

\* usage is recorded by a goroutine that serves no request
RequestsRecordUsageEnter ==
    \E c \in Callers :
        /\ req[c] = IdleCall
        /\ RecordUsageEnter(c, TrackerUsers, TrackerRecordedModels, TrackerUsages, MaxRecords)

RequestsInit ==
    /\ now = 0
    /\ jwtSigFirst = TRUE
    /\ NewRateLimiter
    /\ NoTokens
    /\ NoAccessCall
    /\ NewService
    /\ apiKeys = APIKeys
    /\ req = [c \in Callers |-> IdleCall]
    /\ served = 0
    /\ proc = Serving
    /\ usageLock = FreeLock
    /\ mu = <<>>
    /\ callers = [c \in Callers |-> IdleFrame]
    /\ recorded = <<>>

RequestsNext ==
    \/ \E c \in Callers : PerformCompletionEnter(c)
    \/ \E c \in Callers : ReadRLock(c)
    \/ \E c \in Callers : ReadLookup(c)
    \/ \E c \in Callers : ReadRUnlock(c)
    \/ \E c \in Callers : PerformCompletionReadActive(c)
    \/ \E c \in Callers : PerformCompletionCall(c)
    \/ \E c \in Callers : UpstreamReturns(c)
    \/ \E c \in Callers : CopyEnds(c)
    \/ \E c \in Callers : HandleStreamEnter(c)
    \/ \E c \in Callers : CheckLock(c)
    \/ \E c \in Callers : CheckLookup(c)
    \/ \E c \in Callers : CheckCreate(c)
    \/ \E c \in Callers : CheckDirty(c)
    \/ \E c \in Callers : CheckRefill(c)
    \/ \E c \in Callers : CheckTest(c)
    \/ \E c \in Callers : CheckDecrement(c)
    \/ \E c \in Callers : CheckUnlock(c)
    \/ \E c \in Callers : HandleStreamWrite(c)
    \/ \E c \in Callers : HandleStreamDone(c)
    \/ RequestsRecordUsageEnter
    \/ \E c \in Callers : RecordUsageLock(c)
    \/ \E c \in Callers : RecordUsageLoad(c)
    \/ \E c \in Callers : RecordUsageStore(c)
    \/ \E c \in Callers : RecordUsageActive(c)
    \/ \E c \in Callers : RecordUsageUnlock(c)

SpecRequests == RequestsInit /\ [][RequestsNext]_vars

(***************************************************************************)
(* C33: no request holds the usage/active-user lock or the bucket-table    *)
(* lock while it waits on the upstream provider call or copies stream      *)
(* bytes to the caller: every lock a request acquired is released before   *)
(* it reaches an I/O suspension point.                                     *)
(***************************************************************************)
C33_Holds(c) ==
    \/ usageLock.writer = <<c>>
    \/ c \in usageLock.readers
    \/ mu = <<c>>

C33_NoLockAcrossIO == \A c \in Callers : Suspended(c) => ~C33_Holds(c)

\* one request copies its stream and another writes its chunks, each after having
\* taken and released its lock, while usage has been recorded
C33_Witness ==
    /\ \E c \in Callers : req[c].pc = "copy"
    /\ \E c \in Callers : req[c].pc = "write" /\ dirtyBuckets # {}
    /\ userUsage # <<>>


(***************************************************************************)
(* Cancellation.  A completion request waits on the provider call and then *)
(* copies the response to the caller; meanwhile the caller may disconnect  *)
(* and a signal may arrive.  The provider requests are built with          *)
(* http.NewRequest, without a context; callCopilotAPI and callOpenAIAPI go *)
(* through a client without a timeout (utils.go:156), callAnthropicAPI and *)
(* callGoogleAIAPI through s.httpClient, whose Timeout of 30 s also bounds *)
(* the reading of the body.  On a signal main cancels its context, calls   *)
(* server.Shutdown with a deadline of 5 s and returns, which ends the      *)
(* process.  What the provider does is not up to the program: no fairness  *)
(* is assumed for it, only for main and for the timers.                    *)
(***************************************************************************)
IdleConn == [pc |-> "idle", provider |-> "none", disconnected |-> FALSE, body |-> "none"]

InFlight(c) == req[c].pc \in {"upstream", "copy"}

HasTimeout(provider) == provider \in {ProviderAnthropic, ProviderGoogle}

\* PerformCompletion reached the provider call
RequestWaits(c) ==
    /\ proc.main = "serving"
    /\ req[c] = IdleConn
    /\ \E provider \in {ProviderCopilot, ProviderOpenAI, ProviderAnthropic} :
         req' = [req EXCEPT ![c] = [IdleConn EXCEPT !.pc = "upstream", !.provider = provider]]
    /\ UNCHANGED <<now, limiterVars, jwtSigFirst, tokenVars, authVars, trackerVars,
                   apiKeys, served, proc, callerVars>>

\* the caller goes away; the handler does not look at r.Context()
CallerDisconnects(c) ==
    /\ InFlight(c)
    /\ ~req[c].disconnected
    /\ req' = [req EXCEPT ![c].disconnected = TRUE]
    /\ UNCHANGED <<now, limiterVars, jwtSigFirst, tokenVars, authVars, trackerVars,
                   apiKeys, served, proc, callerVars>>

\* SIGINT or SIGTERM arrives and the signal goroutine calls cancel()
SignalArrives ==
    /\ proc = Serving
    /\ proc' = [proc EXCEPT !.signal = TRUE]
    /\ UNCHANGED <<now, limiterVars, jwtSigFirst, tokenVars, authVars, trackerVars,
                   apiKeys, req, served, callerVars>>

\* main gets past <-ctx.Done() and calls server.Shutdown(shutdownCtx)
MainShutdown ==
    /\ proc.signal
    /\ proc.main = "serving"
    /\ proc' = [proc EXCEPT !.main = "Shutdown"]
    /\ UNCHANGED <<now, limiterVars, jwtSigFirst, tokenVars, authVars, trackerVars,
                   apiKeys, req, served, callerVars>>

\* Shutdown returns, the connections idle or the deadline passed, and main returns:
\* the process ends with the handlers wherever they are
ShutdownReturns ==
    /\ proc.main = "Shutdown"
    /\ proc' = [proc EXCEPT !.main = "exited"]
    /\ req' = [c \in Callers |->
                 IF InFlight(c) THEN [req[c] EXCEPT !.pc = "killed"] ELSE req[c]]
    /\ UNCHANGED <<now, limiterVars, jwtSigFirst, tokenVars, authVars, trackerVars,
                   apiKeys, served, callerVars>>

\* the provider answers: an error ends the request, a response is handed to io.Copy
UpstreamResponds(c) ==
    /\ req[c].pc = "upstream"
    /\ \E failed \in BOOLEAN :
         req' = [req EXCEPT ![c] = IF failed THEN IdleConn
                                   ELSE [req[c] EXCEPT !.pc = "copy", !.body = "open"]]
    /\ UNCHANGED <<now, limiterVars, jwtSigFirst, tokenVars, authVars, trackerVars,
                   apiKeys, served, proc, callerVars>>

\* the provider sends bytes: the write to a caller that is gone fails, io.Copy returns
\* and the deferred Close calls run
UpstreamSends(c) ==
    /\ req[c].pc = "copy"
    /\ req' = [req EXCEPT ![c] = IF req[c].disconnected THEN IdleConn ELSE req[c]]
    /\ UNCHANGED <<now, limiterVars, jwtSigFirst, tokenVars, authVars, trackerVars,
                   apiKeys, served, proc, callerVars>>

\* the provider ends the stream: io.Copy returns and the deferred Close calls run
UpstreamEnds(c) ==
    /\ req[c].pc = "copy"
    /\ req' = [req EXCEPT ![c] = IdleConn]
    /\ UNCHANGED <<now, limiterVars, jwtSigFirst, tokenVars, authVars, trackerVars,
                   apiKeys, served, proc, callerVars>>

\* the Timeout of s.httpClient passes: Do or the read of the body fails
ClientTimeout(c) ==
    /\ InFlight(c)
    /\ HasTimeout(req[c].provider)
    /\ req' = [req EXCEPT ![c] = IdleConn]
    /\ UNCHANGED <<now, limiterVars, jwtSigFirst, tokenVars, authVars, trackerVars,
                   apiKeys, served, proc, callerVars>>

CancelInit ==
    /\ NoCallers
    /\ now = 0
    /\ jwtSigFirst = TRUE
    /\ NewRateLimiter
    /\ NoTokens
    /\ NoAccessCall
    /\ NewService
    /\ apiKeys = APIKeys
    /\ req = [c \in Callers |-> IdleConn]
    /\ served = 0
    /\ proc = Serving

CancelNext ==
    \/ \E c \in Callers : RequestWaits(c)
    \/ \E c \in Callers : CallerDisconnects(c)
    \/ SignalArrives
    \/ MainShutdown
    \/ ShutdownReturns
    \/ \E c \in Callers : UpstreamResponds(c)
    \/ \E c \in Callers : UpstreamSends(c)
    \/ \E c \in Callers : UpstreamEnds(c)
    \/ \E c \in Callers : ClientTimeout(c)

CancelFairness ==
    /\ WF_vars(MainShutdown)
    /\ WF_vars(ShutdownReturns)
    /\ \A c \in Callers : WF_vars(ClientTimeout(c))

SpecCancel == CancelInit /\ [][CancelNext]_vars /\ CancelFairness

(***************************************************************************)
(* C34: after the caller disconnects or a shutdown signal arrives, a       *)
(* request that is waiting on the upstream provider call or copying the    *)
(* upstream stream is cancelled: it stops waiting and copying, whatever    *)
(* the provider does.                                                      *)
(***************************************************************************)
C34_Cancelled(c) == InFlight(c) /\ (req[c].disconnected \/ proc.signal)

C34_CancelledRequestEnds == \A c \in Callers : C34_Cancelled(c) ~> ~InFlight(c)


(***************************************************************************)
(* C35: every token issued by CreateLLMToken carries a unique token id:    *)
(* two issuances, also two made at the same instant or for the same user,  *)
(* embed different ids.                                                    *)
(***************************************************************************)
C35_NextIssuance == issued # <<>> /\ issued' # <<>> /\ issued' # issued

C35_UniqueTokenIds ==
    [][C35_NextIssuance => issued'[1].string.claims.jti # issued[1].string.claims.jti]_vars


(***************************************************************************)
(* C36: usage is one record per user id, aggregated across models.         *)
(* GetModelUsage(u, p, m) returns the same counters for every provider p   *)
(* and model m, so what was recorded for one model is what a request of    *)
(* the same user for any other model is measured with, and a recording for *)
(* one user changes what is returned for no other user.                    *)
(***************************************************************************)
C36_Reads(c) == C25_Returned(c) /\ callers[c].op = "GetModelUsage"

C36_SameForEveryModel ==
    \A c \in DOMAIN callers :
        C36_Reads(c) =>
            \A m \in RecordedModels, k \in C23_Counters :
                callers[c].ret[1][k]
                    = GetModelUsage(callers[c].args[1].userID, m.Provider, m.Model)[k]

C36_Store ==
    userUsage' # userUsage =>
        \E c \in C23_Recording :
            LET a == callers[c].args[1]
            IN  /\ callers[c].pc = "Store"
                /\ \A m \in RecordedModels :
                     /\ GetModelUsage(a.userID, m.Provider, m.Model)'.RequestsThisMinute
                          = GetModelUsage(a.userID, m.Provider, m.Model).RequestsThisMinute + 1
                     /\ GetModelUsage(a.userID, m.Provider, m.Model)'.TokensThisMinute
                          = GetModelUsage(a.userID, m.Provider, m.Model).TokensThisMinute
                              + a.usage.Input + a.usage.Output
                     /\ \A u \in TrackerUsers \ {a.userID} :
                          GetModelUsage(u, m.Provider, m.Model)'
                              = GetModelUsage(u, m.Provider, m.Model)

StreamRequests == StreamRateLimit.capacity + 2

StreamSpan == StreamRateLimit.refillDuration \div StreamRateLimit.capacity

HandleStream(maxRequests) ==
    /\ served < maxRequests
    /\ LET bucketKey == getBucketKey(1, StreamRateLimit.dbName)
           bucket    == NewBucket(StreamRateLimit, now)
       IN  /\ buckets' = Put(<<>>, bucketKey, AllowBucket(bucket, now))
           /\ dirtyBuckets' = {bucketKey}
           /\ req' = [IdleRequest EXCEPT
                        !.endpoint = "stream",
                        !.status = IF AllowResult(bucket, now) THEN 200 ELSE 429]
    /\ served' = served + 1
    /\ UNCHANGED <<now, hist, lastCheck, jwtSigFirst, callerVars, tokenVars, authVars,
                   trackerVars, apiKeys, proc>>

StreamTick == ClockAdvance(0..StreamSpan)

StreamInit ==
    /\ NoCallers
    /\ now = 0
    /\ jwtSigFirst = TRUE
    /\ NewRateLimiter
    /\ NoTokens
    /\ NoAccessCall
    /\ NewService
    /\ NoRequest

StreamNext == StreamTick \/ HandleStream(StreamRequests)

SpecStream == StreamInit /\ [][StreamNext]_vars

(***************************************************************************)
(* C37: the /stream handler limits stream requests with a token bucket of  *)
(* capacity 4 per minute: when more than 4 requests are handled within a   *)
(* span shorter than the per-token refill time (15 seconds), every request *)
(* beyond the 4th is answered with 429 Rate limit exceeded.                *)
(***************************************************************************)
C37_StreamLimited ==
    (req.endpoint = "stream" /\ served > StreamRateLimit.capacity /\ now < StreamSpan)
        => req.status = 429


(***************************************************************************)
(* Check calls for several users and several limit names, among them names *)
(* that begin with a digit or hold a colon, so that the keys of different  *)
(* (userID, limit name) pairs come close to one another.  The clock moves  *)
(* between the creation of a bucket and its first Allow only.              *)
(***************************************************************************)
KeyUsers == {1, 11}

KeyNames == {"s", "1s", "1:s"}

KeyLimits == {NewBasicRateLimit(1, MaxCapacity + 1, n) : n \in KeyNames}

CheckKeys == \E limit \in KeyLimits, userID \in KeyUsers : Check(limit, userID)

KeysInit == LimiterInit

KeysNext == CheckKeys

SpecKeys == KeysInit /\ [][KeysNext]_vars

(***************************************************************************)
(* C38: Check(limit, userID) reads and modifies only the bucket keyed by   *)
(* (userID, limit name): the tokenCount and lastRefill of every other      *)
(* bucket are unchanged by the call, and two distinct (userID, limit name) *)
(* pairs never map to the same bucket key.                                 *)
(***************************************************************************)
C38_OthersUnchanged ==
    \A key \in DOMAIN buckets :
        key # getBucketKey(lastCheck'.userID, lastCheck'.name) =>
            /\ key \in DOMAIN buckets'
            /\ buckets'[key] = buckets[key]

C38_OwnBucketRead ==
    (lastCheck.key # "" /\ ~lastCheck.panic) =>
        /\ lastCheck.key = getBucketKey(lastCheck.userID, lastCheck.name)
        /\ hist[lastCheck.key].owner = <<lastCheck.userID, lastCheck.name>>
        /\ buckets[lastCheck.key] = AllowBucket(lastCheck.before, lastCheck.t)

C38_DistinctKeys ==
    \A key \in DOMAIN buckets, userID \in KeyUsers, name \in KeyNames :
        key = getBucketKey(userID, name) => hist[key].owner = <<userID, name>>

C38_OwnBucketOnly ==
    [](C38_OwnBucketRead /\ C38_DistinctKeys) /\ [][C38_OthersUnchanged]_vars

\* user 1 under "1s" and "1:s" and user 11 under "s" each drained a bucket of their own
C38_Witness ==
    /\ {getBucketKey(1, "1s"), getBucketKey(1, "1:s"), getBucketKey(11, "s")}
            \subseteq DOMAIN buckets
    /\ \A key \in DOMAIN buckets : buckets[key].tokenCount = 0 /\ hist[key].calls = 1


(***************************************************************************)
(* C39: in every reachable state of the usage tracker every stored         *)
(* active-user count has both fields equal to 1, so both are >= 1 and the  *)
(* per-user ceilings computed from the tracker's state always equal the    *)
(* catalog ceilings.                                                       *)
(***************************************************************************)
C39_CatalogCeilings(model) ==
    [RequestsPerMinute     |-> model.MaxRequestsPerMinute,
     TokensPerMinute       |-> model.MaxTokensPerMinute,
     InputTokensPerMinute  |-> model.MaxInputTokensPerMinute,
     OutputTokensPerMinute |-> model.MaxOutputTokensPerMinute,
     TokensPerDay          |-> model.MaxTokensPerDay]

C39_ActiveCountsAreOne ==
    /\ \A key \in DOMAIN activeUsers :
         activeUsers[key] = [UsersInRecentMinutes |-> 1, UsersInRecentDays |-> 1]
    /\ \A i \in DOMAIN DefaultModels :
         PerUserCeilings(DefaultModels[i],
                         GetActiveUserCount(DefaultModels[i].Provider, DefaultModels[i].Name))
            = C39_CatalogCeilings(DefaultModels[i])
    /\ \A c \in DOMAIN callers :
         (C25_Returned(c) /\ callers[c].op = "GetActiveUserCount") =>
            /\ callers[c].ret[1].UsersInRecentMinutes = 1
            /\ callers[c].ret[1].UsersInRecentDays = 1

\* two users recorded usage for one model, and a read of its stored count returned
C39_Witness ==
    /\ ModelKey(ProviderCopilot, <<"copilot-chat">>) \in DOMAIN activeUsers
    /\ DOMAIN userUsage = TrackerUsers
    /\ \E c \in DOMAIN callers :
         /\ C25_Returned(c)
         /\ callers[c].op = "GetActiveUserCount"
         /\ callers[c].args[1].model = <<"copilot-chat">>


(***************************************************************************)
(* One call of PerformCompletion with the provider request in hand.  The   *)
(* request names a provider and a model (CompletionParams.Provider and     *)
(* .Model) and carries the provider request as a JSON string of its own;   *)
(* a payload is that string decoded: whether it is JSON, and its "model"   *)
(* member (<<>> when there is none).  Access is validated on the           *)
(* normalized params model; the call*API functions send the payload, which *)
(* callAnthropicAPI first rewrites from an alias to a dated release.       *)
(***************************************************************************)
AnthropicRelease(model) ==
    CASE model = <<"claude-3-5-sonnet">> -> <<"claude-3-5-sonnet", "-20240620">>
      [] model = <<"claude-3-7-sonnet">> -> <<"claude-3-7-sonnet", "-20240307">>
      [] model = <<"claude-3-opus">>     -> <<"claude-3-opus", "-20240229">>
      [] model = <<"claude-3-haiku">>    -> <<"claude-3-haiku", "-20240307">>
      [] model = <<"claude-3-sonnet">>   -> <<"claude-3-sonnet", "-20240229">>
      [] OTHER -> model

PayloadKind(payload) ==
    IF ~payload.json THEN "invalid"
    ELSE IF payload.model = <<>> THEN "no-model" ELSE "with-model"

\* the payload a call*API function puts in the body of the upstream request
SentPayload(provider, payload) ==
    IF provider = ProviderAnthropic /\ payload.model # <<>>
    THEN [payload EXCEPT !.model = <<AnthropicRelease(payload.model[1])>>]
    ELSE payload

ServedTokens ==
    [UserID : {1}, IsStaff : BOOLEAN, HasLLMSubscription : BOOLEAN,
     MaxMonthlySpendInCents : {1000}, CustomMonthlyAllowanceInCents : {<<>>},
     AccountCreatedAt : {OldAccount}]

Payloads ==
    {[json |-> FALSE, model |-> <<>>], [json |-> TRUE, model |-> <<>>]}
        \cup {[json |-> TRUE, model |-> <<m.Model>>] : m \in GatewayModels}

CallPerformCompletion ==
    /\ authIn = <<>>
    /\ \E token \in ServedTokens, m \in GatewayModels, payload \in Payloads :
        LET model  == normalizeModelName(m.Provider, m.Model)
            access == ValidateAccess(token, getCountryCode("US"), m.Provider, model,
                                     GetModelUsage(token.UserID, m.Provider, model),
                                     GetActiveUserCount(m.Provider, model), 0)
            kind   == PayloadKind(payload)
            called == CallReachesProvider(m.Provider, token.IsStaff, kind)
        IN  /\ authIn' = <<[token |-> token, provider |-> m.Provider, model |-> m.Model,
                            providerRequest |-> payload]>>
            /\ authOut' =
                  IF AccountTooYoung(token, now)
                  THEN [model |-> <<>>, err |-> "ErrAccountTooYoung", upstream |-> FALSE,
                        sent |-> <<>>]
                  ELSE IF access # NoError
                  THEN [model |-> <<model>>, err |-> access.err, upstream |-> FALSE,
                        sent |-> <<>>]
                  ELSE IF ~called
                  THEN [model |-> <<model>>,
                        err |-> CallError(m.Provider, token.IsStaff, kind),
                        upstream |-> FALSE, sent |-> <<>>]
                  ELSE [model |-> <<model>>, err |-> "nil", upstream |-> TRUE,
                        sent |-> <<SentPayload(m.Provider, payload)>>]
    /\ UNCHANGED <<now, limiterVars, jwtSigFirst, callerVars, tokenVars, trackerVars,
                   gatewayVars>>

ServedInit ==
    /\ NoCallers
    /\ now = 0
    /\ jwtSigFirst = TRUE
    /\ NewRateLimiter
    /\ NoTokens
    /\ authIn = <<>>
    /\ authOut = [model |-> <<>>, err |-> "none", upstream |-> FALSE, sent |-> <<>>]
    /\ NewService
    /\ NoRequest

ServedNext == CallPerformCompletion

SpecServed == ServedInit /\ [][ServedNext]_vars

(***************************************************************************)
(* C40: the model a request is authorized for is the model it is served    *)
(* with: for every dispatched request, the model of the payload sent       *)
(* upstream is the normalized model ValidateAccess was run on, up to the   *)
(* Anthropic mapping of an alias to its dated release.                     *)
(***************************************************************************)
C40_ServedAsAuthorized ==
    authOut.upstream =>
        \/ authOut.sent[1].model = authOut.model
        \/ authOut.sent[1].model = <<AnthropicRelease(authOut.model[1])>>

====
